---- MODULE Spec2Model ----
(***************************************************************************)
(* The calendar's task display and urgency classifier of the todo list     *)
(* application (src/src/utils/taskDisplayLogic.ts).                         *)
(*                                                                         *)
(* A Date is modelled by its time value counted in hours of local time     *)
(* (getTime() / 3600000), so that the time of day a Date carries and the   *)
(* setHours(0, 0, 0, 0) truncation are part of the model.  Local midnights *)
(* are HoursPerDay apart: the model covers time zones without a daylight   *)
(* saving transition inside the modelled days.                             *)
(***************************************************************************)
EXTENDS Integers, Sequences, FiniteSets

\* ------------------------------------------------------------------ bounds
\* Last modelled calendar day (days are numbered 0..MaxDay).
MaxDay == 21
\* Last day a task's startDate is drawn from (1..MaxStartDay).
MaxStartDay == 2

\* --------------------------------------------------------------- constants
\* One day in hours: the divisor 1000 * 60 * 60 * 24 ms of the day arithmetic.
HoursPerDay == 24
\* An absent (null / undefined) optional date.
NoDate == -1

\* Times of day (hours after local midnight) the modelled Dates carry:
\* local midnight, and 07:00 (a date-only string parsed as UTC in UTC+7).
TimesOfDay == {0, 7}

Days == 0..MaxDay
StartDays == 1..MaxStartDay

\* new Date(year, month, day, hours): the time value of a local date and hour.
DateAt(day, hour) == day * HoursPerDay + hour

Dates == {DateAt(d, h) : d \in Days, h \in TimesOfDay}
StartDates == {DateAt(d, h) : d \in StartDays, h \in TimesOfDay}

\* The Task entity, reduced to the fields the classifier reads.
Tasks ==
    [isCompleted : BOOLEAN,
     startDate : StartDates \cup {NoDate},
     dueDate : Dates \cup {NoDate}]

VARIABLES
    task,         \* the task being classified
    now,          \* the wall clock, read by new Date()
    currentDate,  \* the candidate date: the calendar cell asked about
    info,         \* <<>> before the first call, then <<result of getTaskDisplayInfo>>
    dayTasksInfo  \* the result of getTasksForDate([task], currentDate)

\* The dates of one sweep over the calendar cells.
VARIABLES
    shownOn       \* the days of the cells getTasksForDate returned the task for

\* The calendar cell and the day-detail modal rendering a task list.
VARIABLES
    tasksProp,    \* the tasks prop: the caller's array of Task
    selectedDate, \* the date of the rendered cell and of the modal
    cellRows,     \* the task rows rendered in the calendar cell
    showDayTasksModal,
    modalInfos,   \* the modal's dayTasksInfo array
    sortedTasks,  \* the modal's sortedTasks
    modalRows     \* the task rows rendered in the modal

\* The calendar's interaction state (useState); null is <<>>.
VARIABLES
    editingTask,    \* <<>> or <<the id of the task>>
    contextMenu,    \* <<>> or <<the id of the menu's task>>
    draggedTask,    \* <<>> or <<the id of the task>>
    dragOverDate,   \* NoDate or the date of the cell dragged over
    showMobileMenu, \* <<>> or <<the id of the menu's task>>
    longPressTimer  \* <<>>, <<"pending">> or <<"fired">>: the timeout of the state

\* The task store and the group store while the listener is set up.
VARIABLES
    taskStore,
    groupStore

\* The user's Firestore documents and a running GroupService.deleteGroup.
VARIABLES
    fsGroups,     \* the ids of the group documents
    fsTaskGroup,  \* the groupId of every task document
    deletion      \* the deleteGroup call

\* The month grid of the calendar.
VARIABLES
    shownDate,     \* the component's currentDate state: a date of the shown month
    gridDays,      \* the component's calendarDays array
    gridTasks      \* for every cell, its dayTasksInfo

\* The task store's listeners with overlapping fetchTasks calls.
VARIABLES
    storeLoading,     \* the task store's loading
    storeUnsubscribe, \* the task store's unsubscribe: NoListener or a listener's id
    setupCalls,       \* the setupTasksWithRetry calls waiting in their delay or timer
    activeListeners,  \* the listeners subscribed and not unsubscribed
    fetchCount,       \* the fetchTasks calls that went on to a setup
    creating,         \* a createTask call is awaiting taskService.createTask
    cleanedUp         \* cleanup() has run and fetchTasks was not called since

\* The task store's filtered list and its cache.
VARIABLES
    storeTasks,     \* the task store's tasks
    filters,        \* the task store's filters
    sort,           \* the task store's sort
    filterCache,    \* the module's filterCache, in insertion order
    lastFilterKey,  \* the module's lastFilterKey
    filteredTasks,  \* what getFilteredTasks returned for the present state
    getCalls        \* the getFilteredTasks calls made

\* The background sync manager and createTask.
VARIABLES
    pendingOperations,  \* the manager's pendingOperations
    isOnline,           \* the manager's isOnline, navigator.onLine
    syncInProgress,     \* the manager's syncInProgress
    syncRun,            \* the locals of the running syncPendingOperations
    pendingCache,       \* the cache entry 'pending_operations'
    load,               \* the constructor's loadPendingOperations call
    creation,           \* the latest createTask call
    opCount,            \* the operations addPendingOperation has accepted
    accepted,           \* the accepted operations, each with its task
    executed,           \* the operations executeOperation has completed
    exhausted           \* the operations that failed maxRetries times

classifierVars == <<task, now, currentDate, info, dayTasksInfo>>
sweepVars == <<shownOn>>
displayVars ==
    <<tasksProp, selectedDate, cellRows, showDayTasksModal, modalInfos, sortedTasks, modalRows>>
uiVars ==
    <<editingTask, contextMenu, draggedTask, dragOverDate, showMobileMenu, longPressTimer>>
storeVars == <<taskStore, groupStore>>
firestoreVars == <<fsGroups, fsTaskGroup, deletion>>
gridVars == <<shownDate, gridDays, gridTasks>>
listenerVars ==
    <<storeLoading, storeUnsubscribe, setupCalls, activeListeners, fetchCount, creating,
      cleanedUp>>
cacheVars ==
    <<storeTasks, filters, sort, filterCache, lastFilterKey, filteredTasks, getCalls>>
syncVars ==
    <<pendingOperations, isOnline, syncInProgress, syncRun, pendingCache, load, creation,
      opCount, accepted, executed, exhausted>>

vars ==
    <<classifierVars, sweepVars, displayVars, uiVars, storeVars, firestoreVars, gridVars,
      listenerVars, cacheVars, syncVars>>

\* The parts of the application a specification leaves out stay as they are
\* before anything is loaded.
ClassifierIdle ==
    /\ task = [isCompleted |-> FALSE, startDate |-> NoDate, dueDate |-> NoDate]
    /\ now = 0
    /\ currentDate = 0
    /\ info = <<>>
    /\ dayTasksInfo = <<>>

SweepIdle == shownOn = {}

GridIdle == shownDate = NoDate /\ gridDays = <<>> /\ gridTasks = <<>>

\* unsubscribe: null.
NoListener == 0

CacheIdle ==
    /\ storeTasks = <<>>
    /\ filters = [status |-> {}]
    /\ sort = [field |-> "createdAt", direction |-> "desc"]
    /\ filterCache = <<>>
    /\ lastFilterKey =
           [taskCount |-> -1, filters |-> [status |-> {}],
            sort |-> [field |-> "", direction |-> ""], taskIds |-> <<>>]
    /\ filteredTasks = <<[id |-> 0]>>
    /\ getCalls = 0

SyncIdle ==
    /\ pendingOperations = <<>>
    /\ isOnline = TRUE
    /\ syncInProgress = FALSE
    /\ syncRun = [toProcess |-> <<>>, successfulOps |-> {}, failedOps |-> {}, shared |-> TRUE]
    /\ pendingCache = <<[id |-> -1]>>
    /\ load = [pc |-> "reading", cached |-> <<[id |-> -1]>>]
    /\ creation = [pc |-> "idle", task |-> 0, offline |-> FALSE]
    /\ opCount = 0
    /\ accepted = {}
    /\ executed = {}
    /\ exhausted = {}

ListenersIdle ==
    /\ storeLoading = FALSE
    /\ storeUnsubscribe = NoListener
    /\ setupCalls = {}
    /\ activeListeners = {}
    /\ fetchCount = 0
    /\ creating = FALSE
    /\ cleanedUp = FALSE

DisplayIdle ==
    /\ tasksProp = <<>>
    /\ selectedDate = NoDate
    /\ cellRows = <<>>
    /\ showDayTasksModal = FALSE
    /\ modalInfos = <<>>
    /\ sortedTasks = <<>>
    /\ modalRows = <<>>

UiIdle ==
    /\ editingTask = <<>>
    /\ draggedTask = <<>>
    /\ dragOverDate = NoDate
    /\ contextMenu = <<>>
    /\ showMobileMenu = <<>>
    /\ longPressTimer = <<>>

\* A store as created: nothing loaded, no listener, no setup running.  pc is
\* the position of the store's fetch call, retries the argument of its
\* running or scheduled setup call, attempts the setup calls it has made.
NoError == "null"
createdStore ==
    [loading |-> FALSE, error |-> NoError, unsubscribe |-> FALSE,
     pc |-> "idle", retries |-> 0, attempts |-> 0]

StoresIdle == taskStore = createdStore /\ groupStore = createdStore

\* No deleteGroup call has been made.
noDeletion ==
    [pc |-> "idle", groupId |-> "default", snapshot |-> {}, result |-> "null",
     groupsBefore |-> {}, tasksBefore |-> <<>>, written |-> {}]

FirestoreIdle == fsGroups = {} /\ fsTaskGroup = <<>> /\ deletion = noDeletion

\* ------------------------------------------------------------ the classifier

\* Date.prototype.setHours(0, 0, 0, 0): the local midnight of the date's day.
setHours0_NoTruncation(date) == date
setHours0(date) == date - (date % HoursPerDay)

\* Math.ceil(ms / (1000 * 60 * 60 * 24)), on time values in hours.
ceilDays(hours) ==
    IF hours % HoursPerDay = 0
    THEN hours \div HoursPerDay
    ELSE (hours \div HoursPerDay) + 1

Max(a, b) == IF a >= b THEN a ELSE b

\* The TaskDisplayInfo record.
TaskDisplayInfo(t, displayDate, isOverdue, isUrgent, urgencyLevel, shouldDisplay) ==
    [task |-> t,
     displayDate |-> displayDate,
     isOverdue |-> isOverdue,
     isUrgent |-> isUrgent,
     urgencyLevel |-> urgencyLevel,
     shouldDisplay |-> shouldDisplay]

\* Completed tasks are not displayed.
completedInfo_Shown(t, current) ==
    TaskDisplayInfo(t, current, FALSE, FALSE, "normal", TRUE)
completedInfo(t, current) ==
    TaskDisplayInfo(t, current, FALSE, FALSE, "normal", FALSE)

\* Neither startDate nor dueDate.
undatedInfo_Shown(t, current) ==
    TaskDisplayInfo(t, current, FALSE, FALSE, "normal", TRUE)
undatedInfo(t, current) ==
    TaskDisplayInfo(t, current, FALSE, FALSE, "normal", FALSE)

\* No startDate: the old logic, shown on dueDate.
dueOnlyInfo_OverdueNotCritical(t, current, today) ==
    LET dueDate == setHours0(t.dueDate)
        isOverdue == dueDate < today
        shouldDisplay == dueDate = current
    IN  TaskDisplayInfo(t, current, isOverdue, isOverdue,
                        IF isOverdue THEN "urgent" ELSE "normal", shouldDisplay)
dueOnlyInfo_DueTodayOverdue(t, current, today) ==
    LET dueDate == setHours0(t.dueDate)
        isOverdue == dueDate <= today
        shouldDisplay == dueDate = current
    IN  TaskDisplayInfo(t, current, isOverdue, isOverdue,
                        IF isOverdue THEN "critical" ELSE "normal", shouldDisplay)
dueOnlyInfo(t, current, today) ==
    LET dueDate == setHours0(t.dueDate)
        isOverdue == dueDate < today
        shouldDisplay == dueDate = current
    IN  TaskDisplayInfo(t, current, isOverdue, isOverdue,
                        IF isOverdue THEN "critical" ELSE "normal", shouldDisplay)

\* Case 1: today is before startDate: shown on startDate only.
beforeStartInfo_FromStart(t, current, startDate) ==
    TaskDisplayInfo(t, startDate, FALSE, FALSE, "normal", current >= startDate)
beforeStartInfo(t, current, startDate) ==
    TaskDisplayInfo(t, startDate, FALSE, FALSE, "normal", current = startDate)

\* Case 2: today is after dueDate: shown on dueDate with the overdue indicator.
overdueInfo_ShownToday(t, current, dueDate) ==
    TaskDisplayInfo(t, dueDate, TRUE, TRUE, "critical", current > dueDate)
overdueInfo(t, current, dueDate) ==
    TaskDisplayInfo(t, dueDate, TRUE, TRUE, "critical", current = dueDate)

\* Case 3 without a dueDate: shown on today, normally.
openEndedInfo_FromToday(t, current, today) ==
    TaskDisplayInfo(t, today, FALSE, FALSE, "normal", current >= today)
openEndedInfo(t, current, today) ==
    TaskDisplayInfo(t, today, FALSE, FALSE, "normal", current = today)

totalDaysOf_NoFloor(startDate, dueDate) == ceilDays(dueDate - startDate)
totalDaysOf(startDate, dueDate) == Max(1, ceilDays(dueDate - startDate))
remainingDaysOf(dueDate, today) == ceilDays(dueDate - today)

\* progressRatio >= tenths / 10, where progressRatio is
\* (totalDays - remainingDays) / totalDays.  For day counts of this size the
\* double division is exact enough that the comparison agrees with the
\* comparison of the rationals.
progressAtLeast(totalDays, remainingDays, tenths) ==
    10 * (totalDays - remainingDays) >= tenths * totalDays

\* The urgency ladder: <<urgencyLevel, isUrgent>>.
urgencyOf_NoProgressRule(totalDays, remainingDays) ==
    IF remainingDays <= 1 THEN <<"critical", TRUE>>
    ELSE IF remainingDays <= 3 THEN <<"urgent", TRUE>>
    ELSE IF progressAtLeast(totalDays, remainingDays, 6) THEN <<"urgent", FALSE>>
    ELSE <<"normal", FALSE>>
urgencyOf_ProgressFirst(totalDays, remainingDays) ==
    IF progressAtLeast(totalDays, remainingDays, 8) THEN <<"urgent", TRUE>>
    ELSE IF remainingDays <= 1 THEN <<"critical", TRUE>>
    ELSE IF remainingDays <= 3 THEN <<"urgent", TRUE>>
    ELSE IF progressAtLeast(totalDays, remainingDays, 6) THEN <<"urgent", FALSE>>
    ELSE <<"normal", FALSE>>
urgencyOf(totalDays, remainingDays) ==
    IF remainingDays <= 1 THEN <<"critical", TRUE>>
    ELSE IF remainingDays <= 3 \/ progressAtLeast(totalDays, remainingDays, 8)
         THEN <<"urgent", TRUE>>
    ELSE IF progressAtLeast(totalDays, remainingDays, 6) THEN <<"urgent", FALSE>>
    ELSE <<"normal", FALSE>>

\* Case 3 with a dueDate: shown on today, urgency by proximity to dueDate.
activeInfo(t, current, today, startDate, dueDate) ==
    LET totalDays == totalDaysOf(startDate, dueDate)
        remainingDays == remainingDaysOf(dueDate, today)
        urgency == urgencyOf(totalDays, remainingDays)
    IN  TaskDisplayInfo(t, today, FALSE, urgency[2], urgency[1], current = today)

\* Which of the three cases applies to a task with a startDate; dueDate is
\* NoDate when the task has none.
phase_DueDayOverdue(today, startDate, dueDate) ==
    IF today < startDate THEN "beforeStart"
    ELSE IF dueDate # NoDate /\ today >= dueDate THEN "overdue"
    ELSE "active"
phase(today, startDate, dueDate) ==
    IF today < startDate THEN "beforeStart"
    ELSE IF dueDate # NoDate /\ today > dueDate THEN "overdue"
    ELSE "active"

\* The body of getTaskDisplayInfo once today and current are truncated.
classify(t, current, today) ==
    IF t.isCompleted THEN completedInfo(t, current)
    ELSE IF t.startDate = NoDate THEN
        IF t.dueDate = NoDate
        THEN undatedInfo(t, current)
        ELSE dueOnlyInfo(t, current, today)
    ELSE
        LET startDate == setHours0(t.startDate)
            dueDate == IF t.dueDate # NoDate THEN setHours0(t.dueDate) ELSE NoDate
            case == phase(today, startDate, dueDate)
        IN  IF case = "beforeStart" THEN beforeStartInfo(t, current, startDate)
            ELSE IF case = "overdue" THEN overdueInfo(t, current, dueDate)
            ELSE IF dueDate = NoDate THEN openEndedInfo(t, current, today)
            ELSE activeInfo(t, current, today, startDate, dueDate)

\* getTaskDisplayInfo(task, currentDate); clock is the value new Date() reads.
getTaskDisplayInfo_TodayIsCell(t, date, clock) ==
    classify(t, setHours0(date), setHours0(date))
getTaskDisplayInfo(t, date, clock) ==
    classify(t, setHours0(date), setHours0(clock))

\* getTasksForDate(tasks, date): map to the display info, keep the displayed.
getTasksForDate(tasks, date, clock) ==
    LET infos == [i \in 1..Len(tasks) |-> getTaskDisplayInfo(tasks[i], date, clock)]
        shown(i) == i.shouldDisplay
    IN  SelectSeq(infos, shown)

\* ------------------------------------------------------------ the behaviour

\* The application is opened on day 0 with some task loaded; the calendar
\* grid starts at the cell of day 0 and nothing has been classified yet.
Init ==
    /\ task \in Tasks
    /\ now \in {DateAt(0, h) : h \in TimesOfDay}
    /\ currentDate \in {DateAt(0, h) : h \in TimesOfDay}
    /\ info = <<>>
    /\ dayTasksInfo = <<>>
    /\ SweepIdle /\ DisplayIdle /\ UiIdle /\ StoresIdle /\ FirestoreIdle /\ GridIdle
    /\ ListenersIdle
    /\ CacheIdle
    /\ SyncIdle

\* The classifier's results for the candidate date c at wall clock time n.
Classified(c, n) ==
    /\ info' = <<getTaskDisplayInfo(task, c, n)>>
    /\ dayTasksInfo' = getTasksForDate(<<task>>, c, n)

\* The calendar classifies the task for the current cell.
RenderCell ==
    /\ info = <<>>
    /\ Classified(currentDate, now)
    /\ UNCHANGED <<task, now, currentDate>>
    /\ UNCHANGED <<sweepVars, displayVars, uiVars, storeVars, firestoreVars, gridVars>>
    /\ UNCHANGED listenerVars
    /\ UNCHANGED cacheVars
    /\ UNCHANGED syncVars

\* The calendar grid goes on to the cell of the next day and classifies the
\* task for it.
NextCell ==
    /\ currentDate + HoursPerDay \in Dates
    /\ currentDate' = currentDate + HoursPerDay
    /\ Classified(currentDate + HoursPerDay, now)
    /\ UNCHANGED <<task, now>>
    /\ UNCHANGED <<sweepVars, displayVars, uiVars, storeVars, firestoreVars, gridVars>>
    /\ UNCHANGED listenerVars
    /\ UNCHANGED cacheVars
    /\ UNCHANGED syncVars

\* A day passes and the same cell is rendered again: new Date() reads the
\* next day.
NextDay ==
    /\ now + HoursPerDay \in Dates
    /\ now' = now + HoursPerDay
    /\ Classified(currentDate, now + HoursPerDay)
    /\ UNCHANGED <<task, currentDate>>
    /\ UNCHANGED <<sweepVars, displayVars, uiVars, storeVars, firestoreVars, gridVars>>
    /\ UNCHANGED listenerVars
    /\ UNCHANGED cacheVars
    /\ UNCHANGED syncVars

Next == RenderCell \/ NextCell \/ NextDay

Spec == Init /\ [][Next]_vars

\* ------------------------------------------------------- the checked claims

\* The calendar day of a Date, and the days the state's dates fall on.
DayOf(date) == date \div HoursPerDay
Called == info # <<>>
Result == info[1]
Today == DayOf(now)
Candidate == DayOf(currentDate)
HasStart == task.startDate # NoDate
HasDue == task.dueDate # NoDate
StartDay == DayOf(task.startDate)
DueDay == DayOf(task.dueDate)
Open == ~task.isCompleted

\* C1: a completed task is never displayed: for every today and every
\* candidate date getTaskDisplayInfo returns shouldDisplay = FALSE, whatever
\* the task's dates, and getTasksForDate does not return the task.
CompletedNeverDisplayed ==
    (Called /\ task.isCompleted) =>
        /\ ~Result.shouldDisplay
        /\ dayTasksInfo = <<>>

\* C1 witness: a completed task was classified for the very day it is due,
\* which is also today.
CompletedClassifiedOnDueDay ==
    /\ Called /\ task.isCompleted
    /\ HasStart /\ HasDue
    /\ DueDay = Candidate /\ Today = Candidate

\* C2 as stated: every open task whose dueDate is before today, whatever its
\* startDate, is displayed only on dueDate, overdue and critical.
PastDueAlwaysOverdue ==
    (Called /\ Open /\ HasDue /\ Today > DueDay) =>
        /\ Result.shouldDisplay => Candidate = DueDay
        /\ Result.isOverdue
        /\ Result.urgencyLevel = "critical"

\* C2 amended: an open task whose dueDate is before today and that has no
\* startDate, or a startDate not after today, is displayed exactly on
\* dueDate, overdue and critical.
PastDueStartedIsOverdue ==
    (Called /\ Open /\ HasDue /\ Today > DueDay
        /\ (HasStart => StartDay <= Today)) =>
        /\ Result.shouldDisplay <=> Candidate = DueDay
        /\ Result.isOverdue
        /\ Result.urgencyLevel = "critical"

\* C2 witness: start = day 1, due = day 10, today = day 11, displayed in the
\* cell of day 10, the clock and the due date carrying different times of day.
OverdueShownOnDueDay ==
    /\ Called /\ Open /\ HasStart /\ HasDue
    /\ StartDay = 1 /\ DueDay = 10 /\ Today = 11 /\ Candidate = 10
    /\ now % HoursPerDay # task.dueDate % HoursPerDay
    /\ Result.shouldDisplay /\ Result.isOverdue

\* C3: an open task with S <= today <= Due, or with a startDate S, no
\* dueDate and today >= S, is displayed exactly when the candidate date is
\* today, and is not overdue.
ActiveShownToday ==
    (Called /\ Open /\ HasStart
        /\ \/ HasDue /\ StartDay <= Today /\ Today <= DueDay
           \/ ~HasDue /\ Today >= StartDay) =>
        /\ Result.shouldDisplay <=> Candidate = Today
        /\ ~Result.isOverdue

\* C3 witness: an active task with both dates displayed in today's cell, the
\* cell's Date and the clock differing in their time of day.
ActiveDisplayedInTodayCell ==
    /\ Called /\ Open /\ HasStart /\ HasDue
    /\ StartDay < Today /\ Today < DueDay
    /\ Candidate = Today /\ currentDate # now
    /\ Result.shouldDisplay

\* C4: an open task with a startDate S and today < S, with or without a
\* dueDate, is displayed exactly when the candidate date is S; it is not
\* overdue, not urgent, and its urgencyLevel is normal.
BeforeStartShownOnStart ==
    (Called /\ Open /\ HasStart /\ Today < StartDay) =>
        /\ Result.shouldDisplay <=> Candidate = StartDay
        /\ ~Result.isOverdue
        /\ ~Result.isUrgent
        /\ Result.urgencyLevel = "normal"

\* C4 witness: a task that has not started is asked about a cell after its
\* start day and is not displayed there.
NotStartedHiddenAfterStartDay ==
    /\ Called /\ Open /\ HasStart
    /\ Today < StartDay /\ Candidate > StartDay
    /\ ~Result.shouldDisplay

\* C5: an open task with no startDate and dueDate = D is displayed iff the
\* candidate date is D; it is overdue iff D < today; its urgencyLevel is
\* critical when overdue and normal otherwise; isUrgent equals isOverdue.
DueOnlyShownOnDue ==
    (Called /\ Open /\ ~HasStart /\ HasDue) =>
        /\ Result.shouldDisplay <=> Candidate = DueDay
        /\ Result.isOverdue <=> DueDay < Today
        /\ Result.urgencyLevel = (IF DueDay < Today THEN "critical" ELSE "normal")
        /\ Result.isUrgent = Result.isOverdue

\* C5 witness: a task with only a due date, due today, is displayed today
\* with urgencyLevel normal although the clock is past the due date's time.
DueOnlyDueTodayIsNormal ==
    /\ Called /\ Open /\ ~HasStart /\ HasDue
    /\ DueDay = Today /\ Candidate = Today /\ Today > 0
    /\ now > task.dueDate
    /\ Result.shouldDisplay /\ Result.urgencyLevel = "normal"

\* C6: an open task with neither startDate nor dueDate is displayed for no
\* today and no candidate date.
UndatedNeverDisplayed ==
    (Called /\ Open /\ ~HasStart /\ ~HasDue) => ~Result.shouldDisplay

\* C6 witness: an undated open task was classified for today's cell.
UndatedClassifiedForToday ==
    /\ Called /\ Open /\ ~HasStart /\ ~HasDue
    /\ Candidate = Today /\ Today > 0

\* The task has both dates and today is within start..due.
ActiveWindow ==
    /\ Called /\ Open /\ HasStart /\ HasDue
    /\ StartDay <= Today /\ Today <= DueDay

\* C7: in the active window, with totalDays = max(1, due - start),
\* remainingDays = due - today and progress = (totalDays - remainingDays) /
\* totalDays in days, the urgency is decided in this order: remainingDays <= 1
\* is critical and urgent; else remainingDays <= 3 or progress >= 0.8 is
\* urgent with isUrgent; else progress >= 0.6 is urgent without isUrgent;
\* else normal.  With start = day 1 and due = day 10, today = day 9 or day 10
\* is critical and today = day 7 is urgent.
UrgencyLadder ==
    ActiveWindow =>
        LET totalDays == IF DueDay - StartDay >= 1 THEN DueDay - StartDay ELSE 1
            remainingDays == DueDay - Today
            done == totalDays - remainingDays
            expected ==
                IF remainingDays <= 1 THEN <<"critical", TRUE>>
                ELSE IF remainingDays <= 3 \/ 5 * done >= 4 * totalDays
                     THEN <<"urgent", TRUE>>
                ELSE IF 5 * done >= 3 * totalDays THEN <<"urgent", FALSE>>
                ELSE <<"normal", FALSE>>
        IN  /\ <<Result.urgencyLevel, Result.isUrgent>> = expected
            /\ (StartDay = 1 /\ DueDay = 10 /\ Today \in {9, 10}) =>
                   Result.urgencyLevel = "critical"
            /\ (StartDay = 1 /\ DueDay = 10 /\ Today = 7) =>
                   Result.urgencyLevel = "urgent"

\* C7 witness: more than three days remain and the task is urgent with
\* isUrgent set, which only the progress >= 0.8 rule gives.
UrgentByProgressAlone ==
    /\ ActiveWindow
    /\ DueDay - Today > 3
    /\ Result.urgencyLevel = "urgent" /\ Result.isUrgent

UrgencyRank(level) ==
    CASE level = "normal" -> 0
      [] level = "urgent" -> 1
      [] level = "critical" -> 2

\* C8: for a fixed open task with both dates, from its start day on the rank
\* of urgencyLevel (normal < urgent < critical) never decreases from one day
\* to the next, up to the due date and past it.
UrgencyNeverDecreases ==
    [][(/\ Called /\ Open /\ HasStart /\ HasDue
        /\ StartDay <= Today
        /\ task' = task
        /\ DayOf(now') = Today + 1)
       => UrgencyRank(info'[1].urgencyLevel) >= UrgencyRank(Result.urgencyLevel)]_vars

\* C8 witness: the day has advanced inside the active window and the task,
\* normal the day before, is now urgent.
UrgencyRoseOvernight ==
    /\ ActiveWindow
    /\ Today > StartDay
    /\ Result.urgencyLevel = "urgent"
    /\ getTaskDisplayInfo(task, currentDate, now - HoursPerDay).urgencyLevel = "normal"

\* The phase a result shows: overdue results are flagged, active results
\* are displayed on today, results before the start on the later start day.
ShownPhase(r, clock) ==
    IF r.isOverdue THEN "overdue"
    ELSE IF DayOf(r.displayDate) = DayOf(clock) THEN "active"
    ELSE "beforeStart"

PhaseRank(p) ==
    CASE p = "beforeStart" -> 0
      [] p = "active" -> 1
      [] p = "overdue" -> 2

WellFormed == Open /\ HasStart /\ HasDue /\ StartDay <= DueDay

\* C9, the phases day by day.
PhaseOfTheDay ==
    (Called /\ WellFormed) =>
        /\ ShownPhase(Result, now) =
               (IF Today < StartDay THEN "beforeStart"
                ELSE IF Today <= DueDay THEN "active"
                ELSE "overdue")
        /\ Result.shouldDisplay <=>
               Candidate = (IF Today < StartDay THEN StartDay
                            ELSE IF Today <= DueDay THEN Today
                            ELSE DueDay)
        /\ (StartDay = DueDay /\ Today = StartDay) =>
               /\ totalDaysOf(setHours0(task.startDate), setHours0(task.dueDate)) = 1
               /\ Result.urgencyLevel = "critical"

\* C9: for an open task with start <= due the classification is 'before
\* start' (shown on start) on the days before start, 'active' (shown on
\* today) exactly on the days start..due, and 'overdue' (shown on due) from
\* due + 1 on; as today advances day by day the phase never goes back; a
\* single-day window (start = due) is active on that day with totalDays = 1.
PhasesInOrder ==
    /\ []PhaseOfTheDay
    /\ [][(Called /\ WellFormed /\ task' = task /\ DayOf(now') = Today + 1)
          => PhaseRank(ShownPhase(info'[1], now'))
                 >= PhaseRank(ShownPhase(Result, now))]_vars

\* C9 witness: the due day of a task that started earlier: still active,
\* displayed on today, not overdue.
DueDayStillActive ==
    /\ Called /\ WellFormed
    /\ StartDay < DueDay /\ Today = DueDay /\ Candidate = Today
    /\ Result.shouldDisplay /\ ~Result.isOverdue

\* The urgency annotations of a result.
Annotations(r) == <<r.isOverdue, r.isUrgent, r.urgencyLevel>>

\* C10: for a fixed task and a fixed today, isOverdue, isUrgent and
\* urgencyLevel are the same for every candidate date: they do not change
\* when the same task is classified for the next candidate day at the same
\* clock, and they are the same for every time of day the candidate Date
\* carries.
UrgencyIgnoresCandidate ==
    /\ [](Called =>
            \A h \in TimesOfDay :
                Annotations(getTaskDisplayInfo(task, DateAt(Candidate, h), now))
                    = Annotations(Result))
    /\ [][(Called /\ task' = task /\ now' = now /\ currentDate' # currentDate)
          => Annotations(info'[1]) = Annotations(Result)]_vars

\* C10 witness: a task in its active window is asked about a cell after its
\* due date: not displayed there, yet tagged urgent.
UrgentInLaterCell ==
    /\ ActiveWindow
    /\ Candidate > DueDay
    /\ ~Result.shouldDisplay
    /\ Result.urgencyLevel = "urgent"

\* ------------------------------------ the calendar cell and the day modal

\* Greatest length of the tasks prop.
MaxTasks == 3

\* The Priority enumeration.
Priorities == {"low", "medium", "high", "urgent"}

\* The tasks of the rendered list, all started on day 1.  On day 7 a task
\* due on day 7 is critical, due on day 9 urgent, due on day 11 urgent
\* without isUrgent, due on day 21 normal.
ListedTask(dueDay, priority) ==
    [isCompleted |-> FALSE, startDate |-> DateAt(1, 0), dueDate |-> DateAt(dueDay, 0),
     priority |-> priority]
ListedTaskKinds ==
    {ListedTask(7, "low")}
    \cup {ListedTask(9, p) : p \in Priorities}
    \cup {ListedTask(11, "medium"), ListedTask(21, "low"), ListedTask(21, "high")}
    \cup {[isCompleted |-> TRUE, startDate |-> DateAt(1, 0), dueDate |-> DateAt(9, 0),
           priority |-> "medium"]}

\* A task of the list: a kind of task with its id.
WithId(kind, id) ==
    [id |-> id, isCompleted |-> kind.isCompleted, startDate |-> kind.startDate,
     dueDate |-> kind.dueDate, priority |-> kind.priority]

\* The task arrays: the task at position i has id i.
TaskLists ==
    UNION {{[i \in 1..n |-> WithId(kinds[i], i)] : kinds \in [1..n -> ListedTaskKinds]} :
               n \in 1..MaxTasks}

\* getTaskDisplayPriority(task, urgencyLevel).
getTaskDisplayPriority_BumpsUrgent(t, urgencyLevel) ==
    IF urgencyLevel = "critical" THEN "urgent"
    ELSE IF urgencyLevel = "urgent" THEN "high"
    ELSE t.priority
getTaskDisplayPriority(t, urgencyLevel) ==
    IF urgencyLevel = "critical" THEN "urgent"
    ELSE IF urgencyLevel = "urgent" /\ t.priority # "urgent" THEN "high"
    ELSE t.priority

\* getPriorityColor(priority), the same in the calendar and in the modal.
getPriorityColor(priority) ==
    CASE priority = "urgent" -> "bg-red-500"
      [] priority = "high" -> "bg-orange-500"
      [] priority = "medium" -> "bg-yellow-500"
      [] priority = "low" -> "bg-green-500"
      [] OTHER -> "bg-gray-500"

\* The glyph rendered after the title: overdue, critical, urgent or none.
alertGlyph(isOverdue, urgencyLevel) ==
    IF isOverdue THEN "overdue"
    ELSE IF urgencyLevel = "critical" THEN "critical"
    ELSE IF urgencyLevel = "urgent" THEN "urgent"
    ELSE "none"

\* One task row of a calendar cell.
cellRow(taskInfo) ==
    LET displayPriority == getTaskDisplayPriority(taskInfo.task, taskInfo.urgencyLevel)
    IN  [taskInfo |-> taskInfo,
         displayPriority |-> displayPriority,
         dot |-> getPriorityColor(displayPriority),
         glyph |-> alertGlyph(taskInfo.isOverdue, taskInfo.urgencyLevel)]

\* dayTasksInfo.slice(0, 4).
slice4(infos) == SubSeq(infos, 1, IF Len(infos) < 4 THEN Len(infos) ELSE 4)

\* The rows of the calendar cell of a date.
calendarCell(taskList, date, clock) ==
    LET infos == slice4(getTasksForDate(taskList, date, clock))
    IN  [i \in 1..Len(infos) |-> cellRow(infos[i])]

\* One task row of the day-detail modal.
modalRow(taskInfo) ==
    [taskInfo |-> taskInfo,
     dot |-> getPriorityColor(taskInfo.task.priority),
     glyph |-> alertGlyph(taskInfo.isOverdue, taskInfo.urgencyLevel)]

urgencyOrder(urgencyLevel) ==
    CASE urgencyLevel = "critical" -> 3
      [] urgencyLevel = "urgent" -> 2
      [] urgencyLevel = "normal" -> 1

priorityOrder(priority) ==
    CASE priority = "urgent" -> 4
      [] priority = "high" -> 3
      [] priority = "medium" -> 2
      [] priority = "low" -> 1

\* The comparator of the modal's sort: negative when a comes first.
compareInfos_PriorityAscending(a, b) ==
    IF a.urgencyLevel # b.urgencyLevel
    THEN urgencyOrder(b.urgencyLevel) - urgencyOrder(a.urgencyLevel)
    ELSE priorityOrder(a.task.priority) - priorityOrder(b.task.priority)
compareInfos(a, b) ==
    IF a.urgencyLevel # b.urgencyLevel
    THEN urgencyOrder(b.urgencyLevel) - urgencyOrder(a.urgencyLevel)
    ELSE priorityOrder(b.task.priority) - priorityOrder(a.task.priority)

\* Array.prototype.sort with compareInfos: a stable sort, here by insertion.
RECURSIVE insertInfo(_, _)
insertInfo(sorted, x) ==
    IF sorted = <<>> THEN <<x>>
    ELSE IF compareInfos(Head(sorted), x) <= 0
         THEN <<Head(sorted)>> \o insertInfo(Tail(sorted), x)
         ELSE <<x>> \o sorted

RECURSIVE sortInfos(_)
sortInfos(infos) ==
    IF infos = <<>> THEN <<>>
    ELSE insertInfo(sortInfos(SubSeq(infos, 1, Len(infos) - 1)), infos[Len(infos)])

\* The arrays after DayTasksModal has rendered: sort() sorts dayTasksInfo,
\* the array getTasksForDate returned, in place and returns that array; the
\* tasks prop is only read.
DayTasksModal_SortsTheProp(taskList, date, clock) ==
    LET byInfo == sortInfos([i \in 1..Len(taskList) |->
                                 getTaskDisplayInfo(taskList[i], date, clock)])
        sorted == sortInfos(getTasksForDate(taskList, date, clock))
    IN  [tasks |-> [i \in 1..Len(taskList) |-> byInfo[i].task],
         dayTasksInfo |-> sorted,
         sortedTasks |-> sorted,
         rows |-> [i \in 1..Len(sorted) |-> modalRow(sorted[i])]]
DayTasksModal(taskList, date, clock) ==
    LET sorted == sortInfos(getTasksForDate(taskList, date, clock))
    IN  [tasks |-> taskList,
         dayTasksInfo |-> sorted,
         sortedTasks |-> sorted,
         rows |-> [i \in 1..Len(sorted) |-> modalRow(sorted[i])]]

\* The calendar is shown on day 7 with a task list loaded; a cell of day 7
\* or of day 8 is looked at.
DisplayInit ==
    /\ tasksProp \in TaskLists
    /\ selectedDate \in {DateAt(7, 0), DateAt(8, 0)}
    /\ now = DateAt(7, 7)
    /\ cellRows = <<>>
    /\ showDayTasksModal = FALSE
    /\ modalInfos = <<>>
    /\ sortedTasks = <<>>
    /\ modalRows = <<>>
    /\ task = [isCompleted |-> FALSE, startDate |-> NoDate, dueDate |-> NoDate]
    /\ currentDate = 0
    /\ info = <<>>
    /\ dayTasksInfo = <<>>
    /\ SweepIdle /\ UiIdle /\ StoresIdle /\ FirestoreIdle /\ GridIdle
    /\ ListenersIdle
    /\ CacheIdle
    /\ SyncIdle

\* The calendar grid renders the cell of selectedDate.
RenderCalendarCell ==
    /\ cellRows' = calendarCell(tasksProp, selectedDate, now)
    /\ UNCHANGED <<tasksProp, selectedDate, showDayTasksModal, modalInfos, sortedTasks, modalRows>>
    /\ UNCHANGED <<classifierVars, sweepVars, uiVars, storeVars, firestoreVars, gridVars>>
    /\ UNCHANGED listenerVars
    /\ UNCHANGED cacheVars
    /\ UNCHANGED syncVars

\* handleDayDoubleClick on the cell: the day-detail modal renders.
OpenDayTasksModal ==
    LET rendered == DayTasksModal(tasksProp, selectedDate, now)
    IN  /\ showDayTasksModal' = TRUE
        /\ tasksProp' = rendered.tasks
        /\ modalInfos' = rendered.dayTasksInfo
        /\ sortedTasks' = rendered.sortedTasks
        /\ modalRows' = rendered.rows
        /\ UNCHANGED <<selectedDate, cellRows>>
        /\ UNCHANGED <<classifierVars, sweepVars, uiVars, storeVars, firestoreVars, gridVars>>
        /\ UNCHANGED listenerVars
        /\ UNCHANGED cacheVars
        /\ UNCHANGED syncVars

DisplayNext == RenderCalendarCell \/ OpenDayTasksModal

SpecDisplay == DisplayInit /\ [][DisplayNext]_vars

\* --------------------------- the checked claims: display priority and rows

\* The rows on screen: of the rendered cell and of the open modal.
CellRowSet == {cellRows[i] : i \in 1..Len(cellRows)}
ModalRowSet == {modalRows[i] : i \in 1..Len(modalRows)}
StoredPriority(row) == row.taskInfo.task.priority
Urgency(row) == row.taskInfo.urgencyLevel

\* The effective display priority as the specification words it.
EffectivePriority(priority, urgencyLevel) ==
    IF urgencyLevel = "critical" THEN "urgent"
    ELSE IF urgencyLevel = "urgent" /\ priority \in {"low", "medium", "high"} THEN "high"
    ELSE priority

\* C11: getTaskDisplayPriority returns URGENT when the urgency level is
\* critical, HIGH when it is urgent and the stored priority is LOW, MEDIUM
\* or HIGH, and the stored priority in every other case.
DisplayPriorityMapping ==
    \A row \in CellRowSet :
        /\ Urgency(row) = "critical" => row.displayPriority = "urgent"
        /\ Urgency(row) = "urgent" /\ StoredPriority(row) \in {"low", "medium", "high"}
               => row.displayPriority = "high"
        /\ Urgency(row) = "urgent" /\ StoredPriority(row) = "urgent"
               => row.displayPriority = "urgent"
        /\ Urgency(row) = "normal" => row.displayPriority = StoredPriority(row)

\* C11, its case: an urgent task stored as URGENT keeps URGENT, next to a
\* critical task stored as LOW that is shown as URGENT.
UrgentKeptAndLowRaised ==
    /\ \E row \in CellRowSet :
           Urgency(row) = "urgent" /\ StoredPriority(row) = "urgent"
           /\ row.displayPriority = "urgent"
    /\ \E row \in CellRowSet :
           Urgency(row) = "critical" /\ StoredPriority(row) = "low"
           /\ row.displayPriority = "urgent"

\* C12 as stated: every priority dot on screen, in the calendar cell and in
\* the day-detail modal, has the colour of the effective display priority.
DotsShowEffectivePriority ==
    \A row \in CellRowSet \cup ModalRowSet :
        row.dot = getPriorityColor(EffectivePriority(StoredPriority(row), Urgency(row)))

\* C13 as stated: a displayed task that is not overdue has an alert glyph
\* exactly when its isUrgent flag is set.
GlyphFollowsIsUrgent ==
    \A row \in CellRowSet \cup ModalRowSet :
        ~row.taskInfo.isOverdue => (row.glyph # "none" <=> row.taskInfo.isUrgent)

\* The ranks of the day-detail order.
PriorityRank(priority) ==
    CASE priority = "low" -> 1
      [] priority = "medium" -> 2
      [] priority = "high" -> 3
      [] priority = "urgent" -> 4

IsPermutation(s, t) ==
    /\ Len(s) = Len(t)
    /\ \E f \in [1..Len(s) -> 1..Len(s)] :
           /\ \A i, j \in 1..Len(s) : f[i] = f[j] => i = j
           /\ \A i \in 1..Len(s) : s[i] = t[f[i]]

\* C14: the day-detail list is a permutation of getTasksForDate(tasks, date)
\* in which an entry placed before another has a greater urgency, or the
\* same urgency and a stored priority at least as great.
DayListSorted ==
    showDayTasksModal =>
        /\ IsPermutation(sortedTasks, getTasksForDate(tasksProp, selectedDate, now))
        /\ Len(modalRows) = Len(sortedTasks)
        /\ \A i \in 1..Len(modalRows) : modalRows[i].taskInfo = sortedTasks[i]
        /\ \A i, j \in 1..Len(sortedTasks) :
               i < j =>
                   LET a == sortedTasks[i]
                       b == sortedTasks[j]
                   IN  \/ UrgencyRank(a.urgencyLevel) > UrgencyRank(b.urgencyLevel)
                       \/ /\ a.urgencyLevel = b.urgencyLevel
                          /\ PriorityRank(a.task.priority) >= PriorityRank(b.task.priority)

\* C14, its case: the modal lists three tasks in another order than the
\* array: the urgency decides first, the priority between equal urgencies.
DayListReordered ==
    /\ showDayTasksModal
    /\ Len(sortedTasks) = 3
    /\ sortedTasks[1].task.id = 3 /\ sortedTasks[2].task.id = 1
    /\ sortedTasks[1].urgencyLevel = "critical" /\ sortedTasks[2].urgencyLevel = "urgent"
    /\ sortedTasks[3].urgencyLevel = "urgent"
    /\ PriorityRank(sortedTasks[2].task.priority) > PriorityRank(sortedTasks[3].task.priority)

\* C15: classification and presentation change nothing they read: the
\* tasks array keeps its order and contents, and every row holds the task
\* of the array with its stored fields.
TasksNeverMutated ==
    /\ [][tasksProp' = tasksProp]_vars
    /\ [](\A row \in CellRowSet \cup ModalRowSet :
              /\ row.taskInfo.task.id \in 1..Len(tasksProp)
              /\ row.taskInfo.task = tasksProp[row.taskInfo.task.id])

\* C15, its case: the cell and the modal have rendered and the sort has
\* moved the last task of the array to the front of the list.
SortedListBesideUntouchedArray ==
    /\ showDayTasksModal /\ cellRows # <<>>
    /\ Len(tasksProp) >= 2
    /\ Len(sortedTasks) = Len(tasksProp)
    /\ sortedTasks[1].task = tasksProp[Len(tasksProp)]
    /\ tasksProp[1].id = 1

\* ------------------------------------- the calendar's interaction handlers

\* The last day of the calendar grid's cells.
MaxGridDay == 4

\* The dates of the grid's cells.
calendarDays == {DateAt(d, 0) : d \in 0..MaxGridDay}

\* The task on the calendar: with or without a start on day 1, without a due
\* date or due on day 2 or day 4.
CalendarTasks ==
    [isCompleted : BOOLEAN,
     startDate : {NoDate, DateAt(1, 0)},
     dueDate : {NoDate, DateAt(2, 0), DateAt(4, 0)}]

\* The id of the task: what the handlers read of a task they were given.
TaskId == "task-1"

\* The task has a row in some cell of the grid.
hasRow(t, clock) ==
    \E date \in calendarDays : getTaskDisplayInfo(t, date, clock).shouldDisplay

\* new Date(targetDate) with setHours(23, 59, 59, 999): the last hour of the day.
endOfDay(date) == setHours0(date) + (HoursPerDay - 1)

\* The grid renders the cell of a date again.
cellRendered(t, date) ==
    /\ currentDate' = date
    /\ info' = <<getTaskDisplayInfo(t, date, now)>>
    /\ dayTasksInfo' = getTasksForDate(<<t>>, date, now)

\* The calendar is open on day 3 with one task loaded and nothing going on.
CalendarInit ==
    /\ task \in CalendarTasks
    /\ now = DateAt(3, 7)
    /\ currentDate = DateAt(0, 0)
    /\ info = <<>>
    /\ dayTasksInfo = <<>>
    /\ UiIdle
    /\ SweepIdle /\ DisplayIdle /\ StoresIdle /\ FirestoreIdle /\ GridIdle
    /\ ListenersIdle
    /\ CacheIdle
    /\ SyncIdle

\* handleTaskRightClick on the task's row.
handleTaskRightClick ==
    /\ hasRow(task, now)
    /\ contextMenu' = IF task.isCompleted THEN contextMenu ELSE <<TaskId>>
    /\ UNCHANGED <<editingTask, draggedTask, dragOverDate, showMobileMenu, longPressTimer>>
    /\ UNCHANGED <<classifierVars, sweepVars, displayVars, storeVars, firestoreVars, gridVars>>
    /\ UNCHANGED listenerVars
    /\ UNCHANGED cacheVars
    /\ UNCHANGED syncVars

\* toggleTaskCompletion(uid, id, true): the write succeeds and the listener
\* delivers the completed task, or it fails.
toggled(ok) ==
    task' = IF ok THEN [task EXCEPT !.isCompleted = TRUE] ELSE task

\* "Hoàn thành" of the context menu: handleMarkAsDone(contextMenu.task).
ContextMenuMarkAsDone ==
    /\ contextMenu # <<>>
    /\ \E ok \in BOOLEAN :
           /\ toggled(ok)
           /\ contextMenu' = IF ok THEN <<>> ELSE contextMenu
    /\ UNCHANGED <<editingTask, draggedTask, dragOverDate, showMobileMenu, longPressTimer>>
    /\ UNCHANGED <<now, currentDate, info, dayTasksInfo>>
    /\ UNCHANGED <<sweepVars, displayVars, storeVars, firestoreVars, gridVars>>
    /\ UNCHANGED listenerVars
    /\ UNCHANGED cacheVars
    /\ UNCHANGED syncVars

\* "Chỉnh sửa" of the context menu.
ContextMenuEdit ==
    /\ contextMenu # <<>>
    /\ editingTask' = contextMenu
    /\ contextMenu' = <<>>
    /\ UNCHANGED <<draggedTask, dragOverDate, showMobileMenu, longPressTimer>>
    /\ UNCHANGED <<classifierVars, sweepVars, displayVars, storeVars, firestoreVars, gridVars>>
    /\ UNCHANGED listenerVars
    /\ UNCHANGED cacheVars
    /\ UNCHANGED syncVars

\* handleDocumentClick: the listener is on the document while a menu is open.
handleDocumentClick ==
    /\ contextMenu # <<>> \/ showMobileMenu # <<>>
    /\ contextMenu' = <<>>
    /\ showMobileMenu' = <<>>
    /\ UNCHANGED <<editingTask, draggedTask, dragOverDate, longPressTimer>>
    /\ UNCHANGED <<classifierVars, sweepVars, displayVars, storeVars, firestoreVars, gridVars>>
    /\ UNCHANGED listenerVars
    /\ UNCHANGED cacheVars
    /\ UNCHANGED syncVars

\* handleDragStart on the task's row.
handleDragStart ==
    /\ hasRow(task, now)
    /\ draggedTask' = IF task.isCompleted THEN draggedTask ELSE <<TaskId>>
    /\ UNCHANGED <<editingTask, contextMenu, dragOverDate, showMobileMenu, longPressTimer>>
    /\ UNCHANGED <<classifierVars, sweepVars, displayVars, storeVars, firestoreVars, gridVars>>
    /\ UNCHANGED listenerVars
    /\ UNCHANGED cacheVars
    /\ UNCHANGED syncVars

\* handleDragOver on the cell of a date.
handleDragOver(date) ==
    /\ draggedTask # <<>>
    /\ dragOverDate' = date
    /\ UNCHANGED <<editingTask, contextMenu, draggedTask, showMobileMenu, longPressTimer>>
    /\ UNCHANGED <<classifierVars, sweepVars, displayVars, storeVars, firestoreVars, gridVars>>
    /\ UNCHANGED listenerVars
    /\ UNCHANGED cacheVars
    /\ UNCHANGED syncVars

\* handleDragLeave.
handleDragLeave ==
    /\ draggedTask # <<>>
    /\ dragOverDate' = NoDate
    /\ UNCHANGED <<editingTask, contextMenu, draggedTask, showMobileMenu, longPressTimer>>
    /\ UNCHANGED <<classifierVars, sweepVars, displayVars, storeVars, firestoreVars, gridVars>>
    /\ UNCHANGED listenerVars
    /\ UNCHANGED cacheVars
    /\ UNCHANGED syncVars

\* The task after updateTask(uid, id, {dueDate: newDueDate}) of handleDrop.
droppedTask(t, targetDate) ==
    [t EXCEPT !.dueDate = endOfDay(targetDate)]

\* handleDrop on the cell of a date, the user signed in: the update succeeds
\* and the listener delivers the task, or it fails; the grid renders again.
handleDrop(targetDate) ==
    /\ draggedTask # <<>>
    /\ dragOverDate' = NoDate
    /\ draggedTask' = <<>>
    /\ \E ok \in BOOLEAN :
           /\ task' = IF ok THEN droppedTask(task, targetDate) ELSE task
           /\ cellRendered(task', targetDate)
    /\ UNCHANGED now
    /\ UNCHANGED <<editingTask, contextMenu, showMobileMenu, longPressTimer>>
    /\ UNCHANGED <<sweepVars, displayVars, storeVars, firestoreVars, gridVars>>
    /\ UNCHANGED listenerVars
    /\ UNCHANGED cacheVars
    /\ UNCHANGED syncVars

\* handleDragEnd.
handleDragEnd ==
    /\ draggedTask # <<>>
    /\ draggedTask' = <<>>
    /\ dragOverDate' = NoDate
    /\ UNCHANGED <<editingTask, contextMenu, showMobileMenu, longPressTimer>>
    /\ UNCHANGED <<classifierVars, sweepVars, displayVars, storeVars, firestoreVars, gridVars>>
    /\ UNCHANGED listenerVars
    /\ UNCHANGED cacheVars
    /\ UNCHANGED syncVars

\* handleTouchStart on the task's row: the 500 ms timeout is started.
handleTouchStart ==
    /\ hasRow(task, now)
    /\ longPressTimer = <<>>
    /\ longPressTimer' = IF task.isCompleted THEN longPressTimer ELSE <<"pending">>
    /\ UNCHANGED <<editingTask, contextMenu, draggedTask, dragOverDate, showMobileMenu>>
    /\ UNCHANGED <<classifierVars, sweepVars, displayVars, storeVars, firestoreVars, gridVars>>
    /\ UNCHANGED listenerVars
    /\ UNCHANGED cacheVars
    /\ UNCHANGED syncVars

\* The timeout of handleTouchStart: a long press.
LongPress ==
    /\ longPressTimer = <<"pending">>
    /\ longPressTimer' = <<"fired">>
    /\ showMobileMenu' = <<TaskId>>
    /\ UNCHANGED <<editingTask, contextMenu, draggedTask, dragOverDate>>
    /\ UNCHANGED <<classifierVars, sweepVars, displayVars, storeVars, firestoreVars, gridVars>>
    /\ UNCHANGED listenerVars
    /\ UNCHANGED cacheVars
    /\ UNCHANGED syncVars

\* handleTouchEnd and handleTouchMove: clearTimeout.
handleTouchEnd ==
    /\ longPressTimer # <<>>
    /\ longPressTimer' = <<>>
    /\ UNCHANGED <<editingTask, contextMenu, draggedTask, dragOverDate, showMobileMenu>>
    /\ UNCHANGED <<classifierVars, sweepVars, displayVars, storeVars, firestoreVars, gridVars>>
    /\ UNCHANGED listenerVars
    /\ UNCHANGED cacheVars
    /\ UNCHANGED syncVars

\* The menu button of the task's row: stopPropagation keeps the click from
\* the document's listener.
MobileMenuButton ==
    /\ hasRow(task, now)
    /\ showMobileMenu' = <<TaskId>>
    /\ UNCHANGED <<editingTask, contextMenu, draggedTask, dragOverDate, longPressTimer>>
    /\ UNCHANGED <<classifierVars, sweepVars, displayVars, storeVars, firestoreVars, gridVars>>
    /\ UNCHANGED listenerVars
    /\ UNCHANGED cacheVars
    /\ UNCHANGED syncVars

\* "Hoàn thành" of the mobile menu: handleMarkAsDone, not awaited, and
\* setShowMobileMenu(null).
MobileMenuMarkAsDone ==
    /\ showMobileMenu # <<>>
    /\ showMobileMenu' = <<>>
    /\ \E ok \in BOOLEAN :
           /\ toggled(ok)
           /\ contextMenu' = IF ok THEN <<>> ELSE contextMenu
    /\ UNCHANGED <<editingTask, draggedTask, dragOverDate, longPressTimer>>
    /\ UNCHANGED <<now, currentDate, info, dayTasksInfo>>
    /\ UNCHANGED <<sweepVars, displayVars, storeVars, firestoreVars, gridVars>>
    /\ UNCHANGED listenerVars
    /\ UNCHANGED cacheVars
    /\ UNCHANGED syncVars

\* "Chỉnh sửa" of the mobile menu.
MobileMenuEdit ==
    /\ showMobileMenu # <<>>
    /\ editingTask' = showMobileMenu
    /\ showMobileMenu' = <<>>
    /\ UNCHANGED <<contextMenu, draggedTask, dragOverDate, longPressTimer>>
    /\ UNCHANGED <<classifierVars, sweepVars, displayVars, storeVars, firestoreVars, gridVars>>
    /\ UNCHANGED listenerVars
    /\ UNCHANGED cacheVars
    /\ UNCHANGED syncVars

\* onClose of the task edit modal.
CloseTaskEdit ==
    /\ editingTask # <<>>
    /\ editingTask' = <<>>
    /\ UNCHANGED <<contextMenu, draggedTask, dragOverDate, showMobileMenu, longPressTimer>>
    /\ UNCHANGED <<classifierVars, sweepVars, displayVars, storeVars, firestoreVars, gridVars>>
    /\ UNCHANGED listenerVars
    /\ UNCHANGED cacheVars
    /\ UNCHANGED syncVars

CalendarNext ==
    \/ handleTaskRightClick
    \/ ContextMenuMarkAsDone
    \/ ContextMenuEdit
    \/ handleDocumentClick
    \/ handleDragStart
    \/ \E date \in calendarDays : handleDragOver(date)
    \/ handleDragLeave
    \/ \E date \in calendarDays : handleDrop(date)
    \/ handleDragEnd
    \/ handleTouchStart
    \/ LongPress
    \/ handleTouchEnd
    \/ MobileMenuButton
    \/ MobileMenuMarkAsDone
    \/ MobileMenuEdit
    \/ CloseTaskEdit

SpecCalendar == CalendarInit /\ [][CalendarNext]_vars

\* ------------------------------ the checked claims: the calendar's handlers

\* C16 as stated: after a displayed task that is not completed has been
\* dropped on the cell of a day and the update has been applied, the cell of
\* that day displays the task.
DroppedTaskShownInTargetCell ==
    (Called /\ ~task.isCompleted /\ task.dueDate = endOfDay(currentDate))
        => (Result.shouldDisplay /\ dayTasksInfo # <<>>)

\* C18 as stated: at most one of "a task is dragged", "the context menu is
\* open" and "the mobile menu is open" holds.
OneInteractionAtATime ==
    /\ ~(draggedTask # <<>> /\ contextMenu # <<>>)
    /\ ~(draggedTask # <<>> /\ showMobileMenu # <<>>)
    /\ ~(contextMenu # <<>> /\ showMobileMenu # <<>>)

\* ---------------------------------- the stores setting up their listeners

\* setupTasksWithRetry = async (retries = 3), setupGroupsWithRetry likewise.
MaxRetries == 3

\* What one setup call meets: the listener is subscribed, or the call throws
\* an error with code permission-denied or with another code.
SetupOutcomes == {"subscribed", "permission-denied", "unavailable"}

\* fetchTasks / fetchGroups up to the first setup call, for a user or none.
fetchStarted(store, user) ==
    IF user
    THEN [store EXCEPT !.loading = TRUE, !.error = NoError,
                       !.pc = "setup", !.retries = MaxRetries, !.attempts = 0]
    ELSE [store EXCEPT !.loading = FALSE, !.error = "User not authenticated",
                       !.pc = "idle", !.attempts = 0]

\* One call setupTasksWithRetry(retries) / setupGroupsWithRetry(retries).
setupWithRetry(store, outcome, failure) ==
    LET tried == [store EXCEPT !.attempts = @ + 1]
    IN  IF outcome = "subscribed"
        THEN [tried EXCEPT !.unsubscribe = TRUE, !.pc = "listening"]
        ELSE IF outcome = "permission-denied" /\ store.retries > 0
             THEN [tried EXCEPT !.pc = "scheduled"]
             ELSE [tried EXCEPT !.loading = FALSE, !.error = failure, !.pc = "failed"]

\* The setTimeout callback: setupTasksWithRetry(retries - 1).
retryTimeout(store) == [store EXCEPT !.retries = @ - 1, !.pc = "setup"]

\* The listener's callback.
snapshotReceived(store) == [store EXCEPT !.loading = FALSE, !.error = NoError]

\* No fetch call of the store is under way.
Settled(store) == store.pc \in {"idle", "listening", "failed"}

\* The application starts with both stores as created.
StoresInit ==
    /\ StoresIdle
    /\ ClassifierIdle /\ SweepIdle /\ DisplayIdle /\ UiIdle /\ FirestoreIdle /\ GridIdle
    /\ ListenersIdle
    /\ CacheIdle
    /\ SyncIdle

\* fetchTasks(): skipped while loading.
fetchTasks ==
    /\ Settled(taskStore)
    /\ \E user \in BOOLEAN :
           taskStore' = IF taskStore.loading THEN taskStore ELSE fetchStarted(taskStore, user)
    /\ UNCHANGED groupStore
    /\ UNCHANGED <<classifierVars, sweepVars, displayVars, uiVars, firestoreVars, gridVars>>
    /\ UNCHANGED listenerVars
    /\ UNCHANGED cacheVars
    /\ UNCHANGED syncVars

setupTasksWithRetry ==
    /\ taskStore.pc = "setup"
    /\ \E outcome \in SetupOutcomes :
           taskStore' = setupWithRetry(taskStore, outcome,
                                       "Failed to load tasks. Please try refreshing the page.")
    /\ UNCHANGED groupStore
    /\ UNCHANGED <<classifierVars, sweepVars, displayVars, uiVars, firestoreVars, gridVars>>
    /\ UNCHANGED listenerVars
    /\ UNCHANGED cacheVars
    /\ UNCHANGED syncVars

TasksRetryTimeout ==
    /\ taskStore.pc = "scheduled"
    /\ taskStore' = retryTimeout(taskStore)
    /\ UNCHANGED groupStore
    /\ UNCHANGED <<classifierVars, sweepVars, displayVars, uiVars, firestoreVars, gridVars>>
    /\ UNCHANGED listenerVars
    /\ UNCHANGED cacheVars
    /\ UNCHANGED syncVars

TasksSnapshot ==
    /\ taskStore.pc = "listening" /\ taskStore.unsubscribe
    /\ taskStore' = snapshotReceived(taskStore)
    /\ UNCHANGED groupStore
    /\ UNCHANGED <<classifierVars, sweepVars, displayVars, uiVars, firestoreVars, gridVars>>
    /\ UNCHANGED listenerVars
    /\ UNCHANGED cacheVars
    /\ UNCHANGED syncVars

\* cleanup() of the task store.
cleanup ==
    /\ Settled(taskStore)
    /\ taskStore' = [taskStore EXCEPT !.unsubscribe = FALSE]
    /\ UNCHANGED groupStore
    /\ UNCHANGED <<classifierVars, sweepVars, displayVars, uiVars, firestoreVars, gridVars>>
    /\ UNCHANGED listenerVars
    /\ UNCHANGED cacheVars
    /\ UNCHANGED syncVars

\* fetchGroups(): never skipped.
fetchGroups ==
    /\ Settled(groupStore)
    /\ \E user \in BOOLEAN : groupStore' = fetchStarted(groupStore, user)
    /\ UNCHANGED taskStore
    /\ UNCHANGED <<classifierVars, sweepVars, displayVars, uiVars, firestoreVars, gridVars>>
    /\ UNCHANGED listenerVars
    /\ UNCHANGED cacheVars
    /\ UNCHANGED syncVars

setupGroupsWithRetry ==
    /\ groupStore.pc = "setup"
    /\ \E outcome \in SetupOutcomes :
           groupStore' = setupWithRetry(groupStore, outcome,
                                        "Failed to load groups. Please try refreshing the page.")
    /\ UNCHANGED taskStore
    /\ UNCHANGED <<classifierVars, sweepVars, displayVars, uiVars, firestoreVars, gridVars>>
    /\ UNCHANGED listenerVars
    /\ UNCHANGED cacheVars
    /\ UNCHANGED syncVars

GroupsRetryTimeout ==
    /\ groupStore.pc = "scheduled"
    /\ groupStore' = retryTimeout(groupStore)
    /\ UNCHANGED taskStore
    /\ UNCHANGED <<classifierVars, sweepVars, displayVars, uiVars, firestoreVars, gridVars>>
    /\ UNCHANGED listenerVars
    /\ UNCHANGED cacheVars
    /\ UNCHANGED syncVars

GroupsSnapshot ==
    /\ groupStore.pc = "listening"
    /\ groupStore' = snapshotReceived(groupStore)
    /\ UNCHANGED taskStore
    /\ UNCHANGED <<classifierVars, sweepVars, displayVars, uiVars, firestoreVars, gridVars>>
    /\ UNCHANGED listenerVars
    /\ UNCHANGED cacheVars
    /\ UNCHANGED syncVars

StoresNext ==
    \/ fetchTasks
    \/ setupTasksWithRetry
    \/ TasksRetryTimeout
    \/ TasksSnapshot
    \/ cleanup
    \/ fetchGroups
    \/ setupGroupsWithRetry
    \/ GroupsRetryTimeout
    \/ GroupsSnapshot

SpecStores == StoresInit /\ [][StoresNext]_vars

\* ------------------------------------------ the checked claims: the stores

\* C17 as stated: one fetch call makes at most 3 setup attempts; when its
\* setup has failed for good the store has loading = false and an error; a
\* failure with another code than permission-denied is not retried.
ThreeAttemptLimit ==
    \A store \in {taskStore, groupStore} :
        /\ store.attempts <= 3
        /\ store.pc = "failed" => (~store.loading /\ store.error # NoError)
        /\ store.pc = "scheduled" => store.attempts < 3

\* ------------------------------------------- GroupService.deleteGroup

\* The number of task documents of the user.
MaxFsTasks == 2

\* The ids of the groups the user can have.
GroupIds == {"default", "work", "home"}
FsTaskIds == 1..MaxFsTasks

\* The result of a deleteGroup call: {error: null} or {error: a message}.
Success == "null"
Failure == "error"

\* The user's documents: the default group and some others, every task in a
\* group that exists.
FirestoreInit ==
    /\ fsGroups \in {gs \in SUBSET GroupIds : "default" \in gs /\ gs # {"default"}}
    /\ fsTaskGroup \in [FsTaskIds -> fsGroups]
    /\ deletion = noDeletion
    /\ ClassifierIdle /\ SweepIdle /\ DisplayIdle /\ UiIdle /\ StoresIdle /\ GridIdle
    /\ ListenersIdle
    /\ CacheIdle
    /\ SyncIdle

\* deleteGroup(userId, groupId) is called: 'default' is refused at once.
\* groupsBefore, tasksBefore and written keep what the documents were at
\* the call and which tasks others wrote during it.
deleteGroup(groupId) ==
    /\ deletion.pc \in {"idle", "returned"}
    /\ deletion' =
           [pc |-> IF groupId = "default" THEN "returned" ELSE "ensureDefaultGroup",
            groupId |-> groupId,
            snapshot |-> {},
            result |-> IF groupId = "default" THEN Failure ELSE Success,
            groupsBefore |-> fsGroups, tasksBefore |-> fsTaskGroup, written |-> {}]
    /\ UNCHANGED <<fsGroups, fsTaskGroup>>
    /\ UNCHANGED <<classifierVars, sweepVars, displayVars, uiVars, storeVars, gridVars>>
    /\ UNCHANGED listenerVars
    /\ UNCHANGED cacheVars
    /\ UNCHANGED syncVars

\* A step of the call throws: the catch returns {error}.
thrown == [deletion EXCEPT !.pc = "returned", !.result = Failure]

\* 1. await this.ensureDefaultGroup(userId): setDoc with merge.
ensureDefaultGroup ==
    /\ deletion.pc = "ensureDefaultGroup"
    /\ \/ /\ fsGroups' = fsGroups \cup {"default"}
          /\ deletion' = [deletion EXCEPT !.pc = "getDocs"]
       \/ /\ deletion' = thrown
          /\ UNCHANGED fsGroups
    /\ UNCHANGED fsTaskGroup
    /\ UNCHANGED <<classifierVars, sweepVars, displayVars, uiVars, storeVars, gridVars>>
    /\ UNCHANGED listenerVars
    /\ UNCHANGED cacheVars
    /\ UNCHANGED syncVars

\* 2. await getDocs(tasksQuery): the tasks whose groupId is the group's.
getDocs ==
    /\ deletion.pc = "getDocs"
    /\ \/ deletion' = [deletion EXCEPT
                           !.pc = "commit",
                           !.snapshot = {t \in FsTaskIds : fsTaskGroup[t] = deletion.groupId}]
       \/ deletion' = thrown
    /\ UNCHANGED <<fsGroups, fsTaskGroup>>
    /\ UNCHANGED <<classifierVars, sweepVars, displayVars, uiVars, storeVars, gridVars>>
    /\ UNCHANGED listenerVars
    /\ UNCHANGED cacheVars
    /\ UNCHANGED syncVars

\* 3. await batch.commit(): the snapshot's tasks go to the default group and
\* the group document is deleted, all or nothing.
committedTasks(taskGroup, groupId, snapshot) ==
    [t \in FsTaskIds |-> IF t \in snapshot THEN "default" ELSE taskGroup[t]]

batchCommit ==
    /\ deletion.pc = "commit"
    /\ \/ /\ fsTaskGroup' = committedTasks(fsTaskGroup, deletion.groupId, deletion.snapshot)
          /\ fsGroups' = fsGroups \ {deletion.groupId}
          /\ deletion' = [deletion EXCEPT !.pc = "returned", !.result = Success]
       \/ /\ deletion' = thrown
          /\ UNCHANGED <<fsGroups, fsTaskGroup>>
    /\ UNCHANGED <<classifierVars, sweepVars, displayVars, uiVars, storeVars, gridVars>>
    /\ UNCHANGED listenerVars
    /\ UNCHANGED cacheVars
    /\ UNCHANGED syncVars

\* While the call is under way a task is written with the id of a group
\* that exists: updateTask(uid, id, {groupId}) from the task form.
TaskWritten(t, groupId) ==
    /\ deletion.pc \in {"ensureDefaultGroup", "getDocs", "commit"}
    /\ groupId \in fsGroups
    /\ fsTaskGroup' = [fsTaskGroup EXCEPT ![t] = groupId]
    /\ deletion' = [deletion EXCEPT !.written = @ \cup {t}]
    /\ UNCHANGED fsGroups
    /\ UNCHANGED <<classifierVars, sweepVars, displayVars, uiVars, storeVars, gridVars>>
    /\ UNCHANGED listenerVars
    /\ UNCHANGED cacheVars
    /\ UNCHANGED syncVars

FirestoreNext ==
    \/ \E groupId \in GroupIds : deleteGroup(groupId)
    \/ ensureDefaultGroup
    \/ getDocs
    \/ batchCommit
    \/ \E t \in FsTaskIds, groupId \in GroupIds : TaskWritten(t, groupId)

SpecFirestore == FirestoreInit /\ [][FirestoreNext]_vars

\* --------------------------------------- the checked claims: deleteGroup

\* C19 as stated: when deleteGroup(g) for another group than 'default' has
\* returned success, g is gone, no task has groupId g, the tasks that had it
\* are in 'default' and no other group and no other task has changed, tasks
\* written meanwhile aside; deleteGroup('default') returns an error and
\* changes nothing.
DeletedGroupLeavesNoTask ==
    deletion.pc = "returned" =>
        IF deletion.groupId = "default"
        THEN /\ deletion.result = Failure
             /\ fsGroups = deletion.groupsBefore
             /\ fsTaskGroup = deletion.tasksBefore
        ELSE deletion.result = Success =>
                 /\ deletion.groupId \notin fsGroups
                 /\ fsGroups \ {deletion.groupId} = deletion.groupsBefore \ {deletion.groupId}
                 /\ \A t \in FsTaskIds : fsTaskGroup[t] # deletion.groupId
                 /\ \A t \in FsTaskIds \ deletion.written :
                        fsTaskGroup[t] = IF deletion.tasksBefore[t] = deletion.groupId
                                         THEN "default"
                                         ELSE deletion.tasksBefore[t]

\* --------------------------------------- one sweep over the calendar cells

\* The days that are today in a sweep: the first and the last day of the
\* grid and two days between.
SweepTodays == {0, 2, 11, MaxDay}

\* The calendar is opened with some task loaded, at some time of one of the
\* days; the grid starts at the cell of day 0.
SweepInit ==
    /\ task \in Tasks
    /\ now \in {DateAt(d, h) : d \in SweepTodays, h \in TimesOfDay}
    /\ currentDate \in {DateAt(0, h) : h \in TimesOfDay}
    /\ info = <<>>
    /\ dayTasksInfo = <<>>
    /\ shownOn = {}
    /\ DisplayIdle /\ UiIdle /\ StoresIdle /\ FirestoreIdle /\ GridIdle
    /\ ListenersIdle
    /\ CacheIdle
    /\ SyncIdle

\* The cells that have shown the task, once the cell of a date has been
\* rendered with getTasksForDate's result.
shownWith(date, infos) ==
    IF infos # <<>> THEN shownOn \cup {date \div HoursPerDay} ELSE shownOn

\* getTasksForDateWithInfo for the first cell of the grid.
SweepFirstCell ==
    /\ info = <<>>
    /\ Classified(currentDate, now)
    /\ shownOn' = shownWith(currentDate, dayTasksInfo')
    /\ UNCHANGED <<task, now, currentDate>>
    /\ UNCHANGED <<displayVars, uiVars, storeVars, firestoreVars, gridVars>>
    /\ UNCHANGED listenerVars
    /\ UNCHANGED cacheVars
    /\ UNCHANGED syncVars

\* getTasksForDateWithInfo for the next cell of the grid.
SweepNextCell ==
    /\ info # <<>>
    /\ currentDate + HoursPerDay \in Dates
    /\ currentDate' = currentDate + HoursPerDay
    /\ Classified(currentDate + HoursPerDay, now)
    /\ shownOn' = shownWith(currentDate + HoursPerDay, dayTasksInfo')
    /\ UNCHANGED <<task, now>>
    /\ UNCHANGED <<displayVars, uiVars, storeVars, firestoreVars, gridVars>>
    /\ UNCHANGED listenerVars
    /\ UNCHANGED cacheVars
    /\ UNCHANGED syncVars

SweepNext == SweepFirstCell \/ SweepNextCell

SpecSweep == SweepInit /\ [][SweepNext]_vars

\* ------------------------------------------ the checked claims: the sweep

\* Every cell of the grid has been rendered.
SweepDone == Called /\ Candidate = MaxDay

\* The days the cases display a task on: of its start, of its due date, today.
DisplayDays ==
    (IF HasStart THEN {StartDay} ELSE {}) \cup (IF HasDue THEN {DueDay} ELSE {}) \cup {Today}

\* C20: with today fixed, a task that is not completed and has a startDate
\* or a dueDate is returned by getTasksForDate for exactly one day of the
\* grid, the day of its start, of today or of its due date; a completed
\* task and a task without dates for no day.
ShownOnExactlyOneDay ==
    /\ Cardinality(shownOn) <= 1
    /\ shownOn \subseteq DisplayDays
    /\ (~Open \/ (~HasStart /\ ~HasDue)) => shownOn = {}
    /\ (SweepDone /\ Open /\ (HasStart \/ HasDue)) => Cardinality(shownOn) = 1

\* C20, its case: the whole grid has been rendered for a task in its second
\* day of four, and only the cell of today has shown it.
OnlyTodayShowsActiveTask ==
    /\ SweepDone /\ WellFormed
    /\ StartDay = 1 /\ Today = 2 /\ DueDay = 4
    /\ shownOn = {2}

\* ------------------- the checked claims: the arithmetic and the flags

\* The case the classifier takes for the task of the state, and the day
\* counts it computes in the active case.
CaseTaken == phase(setHours0(now), setHours0(task.startDate), setHours0(task.dueDate))
TotalDays == totalDaysOf(setHours0(task.startDate), setHours0(task.dueDate))
RemainingDays == remainingDaysOf(setHours0(task.dueDate), setHours0(now))
Malformed == HasStart /\ HasDue /\ DueDay < StartDay

\* C21: the urgency arithmetic is evaluated only with start <= today <= due:
\* a task with dueDate < startDate is classified before start or overdue,
\* never active; whenever the day counts are computed totalDays >= 1,
\* 0 <= remainingDays <= totalDays and the progress lies between 0 and 1;
\* and every combination of dates gets a result.
ArithmeticWithinWindow ==
    Called =>
        /\ Result.urgencyLevel \in {"normal", "urgent", "critical"}
        /\ Result.shouldDisplay \in BOOLEAN
        /\ (Open /\ Malformed) =>
               /\ CaseTaken = (IF Today < StartDay THEN "beforeStart" ELSE "overdue")
               /\ Result.isOverdue <=> Today >= StartDay
               /\ DayOf(Result.displayDate) = (IF Today < StartDay THEN StartDay ELSE DueDay)
        /\ (Open /\ HasStart /\ HasDue /\ CaseTaken = "active") =>
               /\ StartDay <= Today /\ Today <= DueDay
               /\ TotalDays >= 1
               /\ 0 <= RemainingDays /\ RemainingDays <= TotalDays
               /\ 0 <= TotalDays - RemainingDays /\ TotalDays - RemainingDays <= TotalDays

\* C21, its cases: a task due before its start has been classified overdue
\* on a day after its start, and a task that starts and is due today has had
\* its day counts computed.
MalformedOverdueAndOneDayTask ==
    Called /\ Open /\ HasStart /\ HasDue
    /\ \/ Malformed /\ Today > StartDay /\ Result.isOverdue
       \/ StartDay = DueDay /\ Today = StartDay /\ CaseTaken = "active"
          /\ TotalDays = 1 /\ RemainingDays = 0

\* C22: the flags of every result agree: isOverdue implies critical,
\* critical implies isUrgent, isUrgent implies urgent or critical, and a
\* displayed result has the candidate date, its time of day zeroed, as
\* displayDate.
FlagsConsistent ==
    Called =>
        /\ Result.isOverdue => Result.urgencyLevel = "critical"
        /\ Result.urgencyLevel = "critical" => Result.isUrgent
        /\ Result.isUrgent => Result.urgencyLevel \in {"urgent", "critical"}
        /\ Result.shouldDisplay =>
               /\ DayOf(Result.displayDate) = Candidate
               /\ Result.displayDate = setHours0(currentDate)

\* C22, its case: an overdue task without startDate is displayed in the
\* cell of its due day, late in the day, with all three flags raised.
OverdueDueOnlyDisplayed ==
    /\ Called /\ Open /\ ~HasStart /\ HasDue
    /\ currentDate # setHours0(currentDate)
    /\ Result.shouldDisplay /\ Result.isOverdue /\ Result.isUrgent
    /\ Result.urgencyLevel = "critical"

\* ------------------------------------------------------- the month grid

\* The years whose months can be shown: GridYears years after EpochYear.
GridYears == 1

\* Day 0 of the time values is 1 January of EpochYear, a Sunday.
EpochYear == 2023
ShownYears == (EpochYear + 1)..(EpochYear + GridYears)

\* The Gregorian calendar of Date.
IsLeapYear(y) == (y % 4 = 0 /\ y % 100 # 0) \/ y % 400 = 0
DaysInMonth(y, m) ==
    IF m = 1 THEN (IF IsLeapYear(y) THEN 29 ELSE 28)
    ELSE IF m \in {3, 5, 8, 10} THEN 30
    ELSE 31

RECURSIVE daysBeforeMonth(_, _)
daysBeforeMonth(y, m) ==
    IF m = 0 THEN 0 ELSE daysBeforeMonth(y, m - 1) + DaysInMonth(y, m - 1)

RECURSIVE daysBeforeYear(_)
daysBeforeYear(y) ==
    IF y <= EpochYear THEN 0 ELSE daysBeforeYear(y - 1) + daysBeforeMonth(y - 1, 12)

\* The years the Dates of the model fall in, and for every month of them
\* the number of its first day.
CalendarYears == EpochYear..(EpochYear + GridYears + 2)
monthStart ==
    [y \in CalendarYears |-> [m \in 0..11 |-> daysBeforeYear(y) + daysBeforeMonth(y, m)]]

\* new Date(year, month, day): a month outside 0..11 carries into the year,
\* a day outside the month into the neighbouring months.
newDate(year, month, day) ==
    LET y == year + (month \div 12)
        m == month % 12
    IN  DateAt(monthStart[y][m] + (day - 1), 0)

\* The year and the month every day lies in.
monthOfDay ==
    [d \in 0..(monthStart[EpochYear + GridYears + 2][0] - 1) |->
        CHOOSE ym \in CalendarYears \X (0..11) :
            /\ monthStart[ym[1]][ym[2]] <= d
            /\ d < monthStart[ym[1]][ym[2]] + DaysInMonth(ym[1], ym[2])]

\* getFullYear(), getMonth(), getDate() and getDay() of a Date.
getFullYear(date) == monthOfDay[date \div HoursPerDay][1]
getMonth(date) == monthOfDay[date \div HoursPerDay][2]
getDate(date) ==
    (date \div HoursPerDay) - monthStart[getFullYear(date)][getMonth(date)] + 1
getDay(date) == (date \div HoursPerDay) % 7

\* prevMonth of the calendarDays computation.
prevMonthOf(year, month) == newDate(year, month - 1, 0)

\* The calendarDays array of a render with currentDate = date and
\* new Date() = clock.
calendarDaysOf(date, clock) ==
    LET year == getFullYear(date)
        month == getMonth(date)
        firstDayOfMonth == newDate(year, month, 1)
        lastDayOfMonth == newDate(year, month + 1, 0)
        daysInMonth == getDate(lastDayOfMonth)
        startingDayOfWeek == getDay(firstDayOfMonth)
        prevMonth == prevMonthOf(year, month)
        daysFromPrevMonth == startingDayOfWeek
        previous ==
            [k \in 1..daysFromPrevMonth |->
                LET i == daysFromPrevMonth - k + 1
                    day == getDate(prevMonth) - i + 1
                IN  [date |-> newDate(year, month - 1, day), day |-> day,
                     isCurrentMonth |-> FALSE, isToday |-> FALSE]]
        current ==
            [day \in 1..daysInMonth |->
                [date |-> newDate(year, month, day), day |-> day,
                 isCurrentMonth |-> TRUE,
                 isToday |-> setHours0(newDate(year, month, day)) = setHours0(clock)]]
        remainingDays == 42 - (daysFromPrevMonth + daysInMonth)
        next ==
            [day \in 1..remainingDays |->
                [date |-> newDate(year, month + 1, day), day |-> day,
                 isCurrentMonth |-> FALSE, isToday |-> FALSE]]
    IN  previous \o current \o next

\* The render of the grid: calendarDays, and getTasksForDateWithInfo for
\* every cell.
gridRendered(date) ==
    /\ shownDate' = date
    /\ gridDays' = calendarDaysOf(date, now)
    /\ gridTasks' = [c \in 1..Len(gridDays') |->
                        getTasksForDate(<<task>>, gridDays'[c].date, now)]

\* The days that are today, and the tasks of the grid: without startDate,
\* due on some day from the month before the shown years to the month
\* after them, or started on the first of these days and without dueDate.
FirstTaskDay == newDate(EpochYear + 1, -1, 1)
LastTaskDay == newDate(EpochYear + GridYears, 12, 31)
GridTodays ==
    {newDate(EpochYear + 1, 2, 1) + 7, newDate(EpochYear + 1, 6, 31) + 7,
     newDate(EpochYear + GridYears, 11, 31) + 7}
GridTasks ==
    {[isCompleted |-> FALSE, startDate |-> NoDate, dueDate |-> DateAt(d, 0)] :
        d \in (FirstTaskDay \div HoursPerDay)..(LastTaskDay \div HoursPerDay)}
    \cup {[isCompleted |-> FALSE, startDate |-> FirstTaskDay, dueDate |-> NoDate]}

\* The calendar is opened: useState(new Date()) and the first render.
GridInit ==
    /\ task \in GridTasks
    /\ now \in GridTodays
    /\ currentDate = 0
    /\ info = <<>>
    /\ dayTasksInfo = <<>>
    /\ shownDate = now
    /\ gridDays = calendarDaysOf(now, now)
    /\ gridTasks = [c \in 1..Len(gridDays) |->
                       getTasksForDate(<<task>>, gridDays[c].date, now)]
    /\ SweepIdle /\ DisplayIdle /\ UiIdle /\ StoresIdle /\ FirestoreIdle
    /\ ListenersIdle
    /\ CacheIdle
    /\ SyncIdle

goToPreviousMonth ==
    /\ newDate(getFullYear(shownDate), getMonth(shownDate) - 1, 1) >= newDate(EpochYear + 1, 0, 1)
    /\ gridRendered(newDate(getFullYear(shownDate), getMonth(shownDate) - 1, 1))
    /\ UNCHANGED <<classifierVars, sweepVars, displayVars, uiVars, storeVars, firestoreVars>>
    /\ UNCHANGED listenerVars
    /\ UNCHANGED cacheVars
    /\ UNCHANGED syncVars

goToNextMonth ==
    /\ newDate(getFullYear(shownDate), getMonth(shownDate) + 1, 1)
           < newDate(EpochYear + GridYears, 12, 1)
    /\ gridRendered(newDate(getFullYear(shownDate), getMonth(shownDate) + 1, 1))
    /\ UNCHANGED <<classifierVars, sweepVars, displayVars, uiVars, storeVars, firestoreVars>>
    /\ UNCHANGED listenerVars
    /\ UNCHANGED cacheVars
    /\ UNCHANGED syncVars

goToToday ==
    /\ gridRendered(now)
    /\ UNCHANGED <<classifierVars, sweepVars, displayVars, uiVars, storeVars, firestoreVars>>
    /\ UNCHANGED listenerVars
    /\ UNCHANGED cacheVars
    /\ UNCHANGED syncVars

GridNext == goToPreviousMonth \/ goToNextMonth \/ goToToday

SpecGrid == GridInit /\ [][GridNext]_vars

\* ------------------------------------- the checked claims: the month grid

\* The shown month, the Sunday its grid is meant to start on, and the cells
\* that show the task.
ShownYear == getFullYear(shownDate)
ShownMonth == getMonth(shownDate)
FirstOfMonth == newDate(ShownYear, ShownMonth, 1)
GridStart == FirstOfMonth - getDay(FirstOfMonth) * HoursPerDay
CellsOn(date) == {c \in 1..Len(gridDays) : gridDays[c].date = date}
CellsShowingTask == {c \in 1..Len(gridTasks) : gridTasks[c] # <<>>}

\* C23 as stated: the grid has 42 cells, their dates are 42 consecutive days
\* from a Sunday, every day of the shown month is in exactly one cell, the
\* cells before it hold the last days of the previous month, no date is in
\* two cells and every cell's label is the day of the month of its date.
GridIsSixConsecutiveWeeks ==
    /\ Len(gridDays) = 42
    /\ getDay(gridDays[1].date) = 0
    /\ \A c \in 1..Len(gridDays) :
           /\ gridDays[c].date = gridDays[1].date + (c - 1) * HoursPerDay
           /\ gridDays[c].day = getDate(gridDays[c].date)
           /\ gridDays[c].date < FirstOfMonth =>
                  gridDays[c].date >= newDate(ShownYear, ShownMonth - 1, 1)
           /\ Cardinality(CellsOn(gridDays[c].date)) = 1
    /\ \A day \in 1..DaysInMonth(ShownYear, ShownMonth) :
           Cardinality(CellsOn(newDate(ShownYear, ShownMonth, day))) = 1

\* C24 as stated: the task is shown in at most one cell of the grid, and in
\* exactly one when the date it is displayed on is one of the 42 days from
\* the Sunday the grid is meant to start on.
TaskInAtMostOneCell ==
    /\ Cardinality(CellsShowingTask) <= 1
    /\ (\E k \in 0..41 :
            getTaskDisplayInfo(task, GridStart + k * HoursPerDay, now).shouldDisplay)
           => Cardinality(CellsShowingTask) = 1

\* ------------------------------------- the task store's real-time listeners

\* The greatest number of fetchTasks calls that go on to a setup.
MaxFetches == 2

\* fetchTasks() and refreshTasks(): skipped while loading, otherwise the stored
\* unsubscribe function is called and, with a user, a setup call starts.
\* The listener of the n-th setup has the id n.
FetchTasksCalled ==
    /\ fetchCount < MaxFetches
    /\ cleanedUp' = FALSE
    /\ IF storeLoading
       THEN UNCHANGED <<storeLoading, storeUnsubscribe, setupCalls, activeListeners, fetchCount>>
       ELSE /\ activeListeners' = activeListeners \ {storeUnsubscribe}
            /\ fetchCount' = fetchCount + 1
            /\ UNCHANGED storeUnsubscribe
            /\ \E user \in BOOLEAN :
                   IF user
                   THEN /\ storeLoading' = TRUE
                        /\ setupCalls' =
                               setupCalls \cup {[id |-> fetchCount + 1, retries |-> MaxRetries]}
                   ELSE /\ storeLoading' = FALSE
                        /\ UNCHANGED setupCalls
    /\ UNCHANGED creating
    /\ UNCHANGED <<classifierVars, sweepVars, displayVars, uiVars, storeVars, firestoreVars, gridVars>>
    /\ UNCHANGED cacheVars
    /\ UNCHANGED syncVars

\* A setup call, its delay over, subscribes its listener and stores the
\* unsubscribe function.
SetupSubscribed(call) ==
    /\ call \in setupCalls
    /\ setupCalls' = setupCalls \ {call}
    /\ activeListeners' = activeListeners \cup {call.id}
    /\ storeUnsubscribe' = call.id
    /\ UNCHANGED <<storeLoading, fetchCount, creating, cleanedUp>>
    /\ UNCHANGED <<classifierVars, sweepVars, displayVars, uiVars, storeVars, firestoreVars, gridVars>>
    /\ UNCHANGED cacheVars
    /\ UNCHANGED syncVars

\* A setup call throws: with permission-denied and retries left it waits in
\* its timer for the next call, otherwise the fetch has failed.
SetupThrown(call, code) ==
    /\ call \in setupCalls
    /\ IF code = "permission-denied" /\ call.retries > 0
       THEN /\ setupCalls' =
                   (setupCalls \ {call}) \cup {[id |-> call.id, retries |-> call.retries - 1]}
            /\ UNCHANGED storeLoading
       ELSE /\ setupCalls' = setupCalls \ {call}
            /\ storeLoading' = FALSE
    /\ UNCHANGED <<storeUnsubscribe, activeListeners, fetchCount, creating, cleanedUp>>
    /\ UNCHANGED <<classifierVars, sweepVars, displayVars, uiVars, storeVars, firestoreVars, gridVars>>
    /\ UNCHANGED cacheVars
    /\ UNCHANGED syncVars

\* The callback of an active listener.
SnapshotCallback(listener) ==
    /\ listener \in activeListeners
    /\ storeLoading' = FALSE
    /\ UNCHANGED <<storeUnsubscribe, setupCalls, activeListeners, fetchCount, creating, cleanedUp>>
    /\ UNCHANGED <<classifierVars, sweepVars, displayVars, uiVars, storeVars, firestoreVars, gridVars>>
    /\ UNCHANGED cacheVars
    /\ UNCHANGED syncVars

\* createTask: set({loading: true}) and the await.
CreateTaskCalled ==
    /\ ~creating
    /\ creating' = TRUE
    /\ storeLoading' = TRUE
    /\ UNCHANGED <<storeUnsubscribe, setupCalls, activeListeners, fetchCount, cleanedUp>>
    /\ UNCHANGED <<classifierVars, sweepVars, displayVars, uiVars, storeVars, firestoreVars, gridVars>>
    /\ UNCHANGED cacheVars
    /\ UNCHANGED syncVars

\* createTask after the await: set({loading: false}) on success and failure.
CreateTaskCompleted ==
    /\ creating
    /\ creating' = FALSE
    /\ storeLoading' = FALSE
    /\ UNCHANGED <<storeUnsubscribe, setupCalls, activeListeners, fetchCount, cleanedUp>>
    /\ UNCHANGED <<classifierVars, sweepVars, displayVars, uiVars, storeVars, firestoreVars, gridVars>>
    /\ UNCHANGED cacheVars
    /\ UNCHANGED syncVars

\* cleanup() on unmount.
CleanupCalled ==
    /\ cleanedUp' = TRUE
    /\ activeListeners' = activeListeners \ {storeUnsubscribe}
    /\ storeUnsubscribe' = NoListener
    /\ UNCHANGED <<storeLoading, setupCalls, fetchCount, creating>>
    /\ UNCHANGED <<classifierVars, sweepVars, displayVars, uiVars, storeVars, firestoreVars, gridVars>>
    /\ UNCHANGED cacheVars
    /\ UNCHANGED syncVars

ListenersInit ==
    /\ ListenersIdle
    /\ CacheIdle
    /\ SyncIdle
    /\ ClassifierIdle /\ SweepIdle /\ DisplayIdle /\ UiIdle /\ StoresIdle /\ FirestoreIdle
    /\ GridIdle

ListenersNext ==
    \/ FetchTasksCalled
    \/ \E call \in setupCalls : SetupSubscribed(call)
    \/ \E call \in setupCalls, code \in {"permission-denied", "unavailable"} :
           SetupThrown(call, code)
    \/ \E listener \in activeListeners : SnapshotCallback(listener)
    \/ CreateTaskCalled
    \/ CreateTaskCompleted
    \/ CleanupCalled

SpecListeners == ListenersInit /\ [][ListenersNext]_vars

\* ---------------------------------- the checked claims: the listeners

\* C25 as stated: at most one task listener is subscribed and not yet
\* unsubscribed, and it is the one whose unsubscribe function the store
\* holds.
OneListenerAndItIsStored ==
    /\ Cardinality(activeListeners) <= 1
    /\ activeListeners \subseteq {storeUnsubscribe}

\* C26 as stated: once cleanup() has run and fetchTasks has not been called
\* since, no task listener is active.
NoListenerAfterCleanup ==
    cleanedUp => activeListeners = {}

\* ------------------------------------------ the task store's filter cache

\* The greatest number of getFilteredTasks calls.
MaxCalls == 2

\* filterCache.size > 10
CacheLimit == 10

TaskStatuses == {"pending", "completed"}

\* The tasks of the user: the second is created later and due earlier.
StoredTask(id, status) ==
    [id |-> id, status |-> status, createdAt |-> DateAt(id, 7),
     dueDate |-> DateAt(5 - id, 0)]

\* The task arrays a snapshot delivers, newest first: both tasks or only the
\* first, each pending or completed.
Snapshots ==
    {<<StoredTask(1, s)>> : s \in TaskStatuses}
        \cup {<<StoredTask(2, s2), StoredTask(1, s1)>> : s1 \in TaskStatuses, s2 \in TaskStatuses}

\* setFilters' arguments: no filter, or the pending tasks.
Filters == {[status |-> {}], [status |-> {"pending"}]}

\* setSort's arguments.
Sorts == {[field |-> "createdAt", direction |-> "desc"], [field |-> "dueDate", direction |-> "asc"]}

\* lastFilterKey = ''
NoFilterKey ==
    [taskCount |-> -1, filters |-> [status |-> {}], sort |-> [field |-> "", direction |-> ""],
     taskIds |-> <<>>]

\* The return value before the first call and once the state was set again.
NotReturned == <<[id |-> 0]>>

RECURSIVE sortedIds(_)
\* tasks.map(t => t.id).sort()
sortedIds(ids) ==
    IF ids = {} THEN <<>>
    ELSE LET least == CHOOSE i \in ids : \A j \in ids : i <= j
         IN  <<least>> \o sortedIds(ids \ {least})

\* The cache key of getFilteredTasks.
filterKeyOf(list, fs, st) ==
    [taskCount |-> Len(list), filters |-> fs, sort |-> st,
     taskIds |-> sortedIds({list[i].id : i \in 1..Len(list)})]

\* The filters of getFilteredTasks.
applyFilters(list, fs) ==
    IF fs.status # {}
    THEN SelectSeq(list, LAMBDA t : t.status \in fs.status)
    ELSE list

\* dueDate?.getTime() || 0, createdAt.getTime()
sortValue(t, st) ==
    IF st.field = "dueDate"
    THEN (IF t.dueDate = NoDate THEN 0 ELSE t.dueDate)
    ELSE t.createdAt

\* The comparator of getFilteredTasks.
compareTasks(a, b, st) ==
    IF st.direction = "asc"
    THEN (IF sortValue(a, st) > sortValue(b, st) THEN 1 ELSE -1)
    ELSE (IF sortValue(a, st) < sortValue(b, st) THEN 1 ELSE -1)

RECURSIVE insertTask(_, _, _)
insertTask(sorted, x, st) ==
    IF sorted = <<>> THEN <<x>>
    ELSE IF compareTasks(Head(sorted), x, st) <= 0
         THEN <<Head(sorted)>> \o insertTask(Tail(sorted), x, st)
         ELSE <<x>> \o sorted

RECURSIVE sortTasks(_, _)
\* filteredTasks.sort(...): the sort values of the listed tasks are distinct.
sortTasks(list, st) ==
    IF list = <<>> THEN <<>>
    ELSE insertTask(sortTasks(SubSeq(list, 1, Len(list) - 1), st), list[Len(list)], st)

\* What getFilteredTasks computes.
computeFilteredTasks(list, fs, st) == sortTasks(applyFilters(list, fs), st)

\* filterCache.has(key), filterCache.get(key)
cacheHas(cache, key) == \E i \in 1..Len(cache) : cache[i].key = key
cacheGet(cache, key) == cache[CHOOSE i \in 1..Len(cache) : cache[i].key = key].value

\* filterCache.set(key, value): a key already there keeps its place.
cacheSet(cache, key, value) ==
    IF cacheHas(cache, key)
    THEN [i \in 1..Len(cache) |->
              IF cache[i].key = key THEN [key |-> key, value |-> value] ELSE cache[i]]
    ELSE Append(cache, [key |-> key, value |-> value])

\* The size limit: the first key is deleted.
limited(cache) == IF Len(cache) > CacheLimit THEN Tail(cache) ELSE cache

CacheInit ==
    /\ CacheIdle
    /\ ClassifierIdle /\ SweepIdle /\ DisplayIdle /\ UiIdle /\ StoresIdle /\ FirestoreIdle
    /\ GridIdle
    /\ ListenersIdle
    /\ SyncIdle

\* setTasks(tasks), and the snapshot callback's set({tasks, ...}).
setTasks(list) ==
    /\ storeTasks' = list
    /\ filteredTasks' = NotReturned
    /\ UNCHANGED <<filters, sort, filterCache, lastFilterKey, getCalls>>
    /\ UNCHANGED <<classifierVars, sweepVars, displayVars, uiVars, storeVars, firestoreVars, gridVars>>
    /\ UNCHANGED listenerVars
    /\ UNCHANGED syncVars

setFilters(fs) ==
    /\ filters' = fs
    /\ filteredTasks' = NotReturned
    /\ UNCHANGED <<storeTasks, sort, filterCache, lastFilterKey, getCalls>>
    /\ UNCHANGED <<classifierVars, sweepVars, displayVars, uiVars, storeVars, firestoreVars, gridVars>>
    /\ UNCHANGED listenerVars
    /\ UNCHANGED syncVars

setSort(st) ==
    /\ sort' = st
    /\ filteredTasks' = NotReturned
    /\ UNCHANGED <<storeTasks, filters, filterCache, lastFilterKey, getCalls>>
    /\ UNCHANGED <<classifierVars, sweepVars, displayVars, uiVars, storeVars, firestoreVars, gridVars>>
    /\ UNCHANGED listenerVars
    /\ UNCHANGED syncVars

getFilteredTasks ==
    /\ getCalls < MaxCalls
    /\ getCalls' = getCalls + 1
    /\ LET filterKey == filterKeyOf(storeTasks, filters, sort)
       IN  IF cacheHas(filterCache, filterKey) /\ filterKey = lastFilterKey
           THEN /\ filteredTasks' = cacheGet(filterCache, filterKey)
                /\ UNCHANGED <<filterCache, lastFilterKey>>
           ELSE /\ filteredTasks' = computeFilteredTasks(storeTasks, filters, sort)
                /\ filterCache' = limited(cacheSet(filterCache, filterKey, filteredTasks'))
                /\ lastFilterKey' = filterKey
    /\ UNCHANGED <<storeTasks, filters, sort>>
    /\ UNCHANGED <<classifierVars, sweepVars, displayVars, uiVars, storeVars, firestoreVars, gridVars>>
    /\ UNCHANGED listenerVars
    /\ UNCHANGED syncVars

CacheNext ==
    \/ \E list \in Snapshots : setTasks(list)
    \/ \E fs \in Filters : setFilters(fs)
    \/ \E st \in Sorts : setSort(st)
    \/ getFilteredTasks

SpecCache == CacheInit /\ [][CacheNext]_vars

\* ------------------------------- the checked claims: the filter cache

\* C27 as stated: getFilteredTasks returns exactly the tasks of the current
\* store state that pass the current filters, in the current sort order.
CacheIsTransparent ==
    filteredTasks # NotReturned => filteredTasks = computeFilteredTasks(storeTasks, filters, sort)

\* ------------------------------------------------ the background sync queue

\* The greatest number of operations addPendingOperation accepts, and of
\* createTask calls.
MaxOperations == 2

\* maxRetries = 3
DefaultMaxRetries == 3

\* cacheManager.get found no entry.
NoCache == <<[id |-> -1]>>

PendingOperation(id, type, data) ==
    [id |-> id, type |-> type, data |-> data, retryCount |-> 0, maxRetries |-> DefaultMaxRetries]

\* What an earlier session left under 'pending_operations': nothing, an
\* empty queue, or one operation.
PreviousSessions == {NoCache, <<>>, <<PendingOperation(0, "create", 0)>>}

\* The results of taskService.createTask, which catches every error: created,
\* or an error message that does or does not contain 'network'.
CreateResults == {"created", "network error", "permission denied"}

idsOf(operations) == {operations[i].id : i \in 1..Len(operations)}

\* executeOperation throws for an unknown type only.
executes(operation) == operation.type \in {"create", "update", "delete"}

\* The addPendingOperation calls of a createTask call whose service call
\* returned result: one in the try block, one in the catch block.
createTaskAdds(result, online) ==
    (IF result # "created" /\ (~online \/ result = "network error") THEN 1 ELSE 0)
        + (IF result # "created" /\ ~online THEN 1 ELSE 0)

\* The queue after count addPendingOperation('create', 'tasks', data) calls.
RECURSIVE pushed(_, _, _, _)
pushed(operations, firstId, count, data) ==
    IF count = 0 THEN operations
    ELSE pushed(Append(operations, PendingOperation(firstId, "create", data)),
                firstId + 1, count - 1, data)

\* syncPendingOperations() goes on to process the queue.
syncStarts(operations, online, inProgress) ==
    ~inProgress /\ online /\ operations # <<>>

\* The state of a sync run that starts with the queue.
startedRun(operations) ==
    [toProcess |-> operations, successfulOps |-> {}, failedOps |-> {}, shared |-> TRUE]

noRun == [toProcess |-> <<>>, successfulOps |-> {}, failedOps |-> {}, shared |-> TRUE]

noCreation == [pc |-> "idle", task |-> 0, offline |-> FALSE]

SyncInit ==
    /\ pendingOperations = <<>>
    /\ isOnline \in BOOLEAN
    /\ syncInProgress = FALSE
    /\ syncRun = noRun
    /\ pendingCache \in PreviousSessions
    /\ load = [pc |-> "reading", cached |-> NoCache]
    /\ creation = noCreation
    /\ opCount = 0
    /\ accepted = {}
    /\ executed = {}
    /\ exhausted = {}
    /\ ClassifierIdle /\ SweepIdle /\ DisplayIdle /\ UiIdle /\ StoresIdle /\ FirestoreIdle
    /\ GridIdle
    /\ ListenersIdle
    /\ CacheIdle

\* loadPendingOperations: cacheManager.get reads the entry.
LoadRead ==
    /\ load.pc = "reading"
    /\ load' = [pc |-> "read", cached |-> pendingCache]
    /\ UNCHANGED <<pendingOperations, isOnline, syncInProgress, syncRun, pendingCache, creation,
                   opCount, accepted, executed, exhausted>>
    /\ UNCHANGED <<classifierVars, sweepVars, displayVars, uiVars, storeVars, firestoreVars, gridVars>>
    /\ UNCHANGED listenerVars
    /\ UNCHANGED cacheVars

\* loadPendingOperations after the await: if (cached) this.pendingOperations = cached.
\* The loaded operations are other objects than those a running sync holds.
LoadAssign ==
    /\ load.pc = "read"
    /\ load' = [load EXCEPT !.pc = "done"]
    /\ IF load.cached # NoCache
       THEN /\ pendingOperations' = load.cached
            /\ syncRun' = [syncRun EXCEPT !.shared = FALSE]
       ELSE UNCHANGED <<pendingOperations, syncRun>>
    /\ UNCHANGED <<isOnline, syncInProgress, pendingCache, creation, opCount, accepted, executed,
                   exhausted>>
    /\ UNCHANGED <<classifierVars, sweepVars, displayVars, uiVars, storeVars, firestoreVars, gridVars>>
    /\ UNCHANGED listenerVars
    /\ UNCHANGED cacheVars

\* The 'online' event: isOnline = true and syncPendingOperations().
OnlineEvent ==
    /\ ~isOnline
    /\ isOnline' = TRUE
    /\ IF syncStarts(pendingOperations, TRUE, syncInProgress)
       THEN /\ syncInProgress' = TRUE
            /\ syncRun' = startedRun(pendingOperations)
       ELSE UNCHANGED <<syncInProgress, syncRun>>
    /\ UNCHANGED <<pendingOperations, pendingCache, load, creation, opCount, accepted, executed,
                   exhausted>>
    /\ UNCHANGED <<classifierVars, sweepVars, displayVars, uiVars, storeVars, firestoreVars, gridVars>>
    /\ UNCHANGED listenerVars
    /\ UNCHANGED cacheVars

\* The 'offline' event.
OfflineEvent ==
    /\ isOnline
    /\ isOnline' = FALSE
    /\ UNCHANGED <<pendingOperations, syncInProgress, syncRun, pendingCache, load, creation,
                   opCount, accepted, executed, exhausted>>
    /\ UNCHANGED <<classifierVars, sweepVars, displayVars, uiVars, storeVars, firestoreVars, gridVars>>
    /\ UNCHANGED listenerVars
    /\ UNCHANGED cacheVars

\* syncPendingOperations() from the periodic check or forceSync, up to its
\* first await.
syncPendingOperations ==
    /\ syncStarts(pendingOperations, isOnline, syncInProgress)
    /\ syncInProgress' = TRUE
    /\ syncRun' = startedRun(pendingOperations)
    /\ UNCHANGED <<pendingOperations, isOnline, pendingCache, load, creation, opCount, accepted,
                   executed, exhausted>>
    /\ UNCHANGED <<classifierVars, sweepVars, displayVars, uiVars, storeVars, firestoreVars, gridVars>>
    /\ UNCHANGED listenerVars
    /\ UNCHANGED cacheVars

\* One turn of the loop of syncPendingOperations: executeOperation and its
\* bookkeeping.  The retry count is that of the operation object, which the
\* queue holds too unless the queue was loaded in between.
executeOperation ==
    /\ syncInProgress
    /\ syncRun.toProcess # <<>>
    /\ LET operation == Head(syncRun.toProcess)
           retried == [operation EXCEPT !.retryCount = @ + 1]
           permanently == retried.retryCount >= retried.maxRetries
       IN  IF executes(operation)
           THEN /\ syncRun' = [syncRun EXCEPT !.toProcess = Tail(@),
                                              !.successfulOps = @ \cup {operation.id}]
                /\ executed' = executed \cup {operation.id}
                /\ UNCHANGED <<pendingOperations, exhausted>>
           ELSE /\ syncRun' = [syncRun EXCEPT !.toProcess = Tail(@),
                                              !.failedOps = IF permanently
                                                            THEN @ \cup {operation.id} ELSE @]
                /\ exhausted' = IF permanently THEN exhausted \cup {operation.id} ELSE exhausted
                /\ pendingOperations' =
                       IF syncRun.shared
                       THEN [i \in 1..Len(pendingOperations) |->
                                 IF pendingOperations[i].id = operation.id
                                 THEN retried ELSE pendingOperations[i]]
                       ELSE pendingOperations
                /\ UNCHANGED executed
    /\ UNCHANGED <<isOnline, syncInProgress, pendingCache, load, creation, opCount, accepted>>
    /\ UNCHANGED <<classifierVars, sweepVars, displayVars, uiVars, storeVars, firestoreVars, gridVars>>
    /\ UNCHANGED listenerVars
    /\ UNCHANGED cacheVars

\* syncPendingOperations after its loop: the successful and the permanently
\* failed operations leave the queue, which is saved.
SyncCompleted ==
    /\ syncInProgress
    /\ syncRun.toProcess = <<>>
    /\ pendingOperations' =
           SelectSeq(pendingOperations,
                     LAMBDA op : op.id \notin syncRun.successfulOps \cup syncRun.failedOps)
    /\ pendingCache' = pendingOperations'
    /\ syncInProgress' = FALSE
    /\ syncRun' = noRun
    /\ UNCHANGED <<isOnline, load, creation, opCount, accepted, executed, exhausted>>
    /\ UNCHANGED <<classifierVars, sweepVars, displayVars, uiVars, storeVars, firestoreVars, gridVars>>
    /\ UNCHANGED listenerVars
    /\ UNCHANGED cacheVars

\* createTask up to the await of taskService.createTask.
createTaskCalled ==
    /\ creation.pc # "awaiting"
    /\ creation.task < MaxOperations
    /\ opCount + 2 <= MaxOperations
    /\ creation' = [pc |-> "awaiting", task |-> creation.task + 1, offline |-> FALSE]
    /\ taskStore' = [taskStore EXCEPT !.loading = TRUE, !.error = NoError]
    /\ UNCHANGED <<pendingOperations, isOnline, syncInProgress, syncRun, pendingCache, load,
                   opCount, accepted, executed, exhausted>>
    /\ UNCHANGED <<classifierVars, sweepVars, displayVars, uiVars, groupStore, firestoreVars, gridVars>>
    /\ UNCHANGED listenerVars
    /\ UNCHANGED cacheVars

\* createTask after the await: the service call has returned result.  Each
\* addPendingOperation pushes, saves and, online, starts a sync.
createTaskSettled(result) ==
    /\ creation.pc = "awaiting"
    /\ LET adds == createTaskAdds(result, isOnline)
           queue == pushed(pendingOperations, opCount + 1, adds, creation.task)
       IN  /\ pendingOperations' = queue
           /\ opCount' = opCount + adds
           /\ accepted' =
                  accepted \cup {[id |-> opCount + i, data |-> creation.task] : i \in 1..adds}
           /\ pendingCache' = IF adds > 0 THEN queue ELSE pendingCache
           /\ IF adds > 0 /\ syncStarts(queue, isOnline, syncInProgress)
              THEN /\ syncInProgress' = TRUE
                   /\ syncRun' = startedRun(queue)
              ELSE UNCHANGED <<syncInProgress, syncRun>>
    /\ creation' =
           [creation EXCEPT !.pc = IF result = "created" THEN "returned" ELSE "thrown",
                            !.offline = ~isOnline]
    /\ taskStore' =
           [taskStore EXCEPT !.loading = FALSE,
                             !.error = IF result = "created" THEN NoError ELSE result]
    /\ UNCHANGED <<isOnline, load, executed, exhausted>>
    /\ UNCHANGED <<classifierVars, sweepVars, displayVars, uiVars, groupStore, firestoreVars, gridVars>>
    /\ UNCHANGED listenerVars
    /\ UNCHANGED cacheVars

SyncNext ==
    \/ LoadRead
    \/ LoadAssign
    \/ OnlineEvent
    \/ OfflineEvent
    \/ syncPendingOperations
    \/ executeOperation
    \/ SyncCompleted
    \/ createTaskCalled
    \/ \E result \in CreateResults : createTaskSettled(result)

SpecSync == SyncInit /\ [][SyncNext]_vars

\* ------------------------------ the checked claims: the sync queue

\* The operations of the createTask call that has just thrown.
QueuedForTheTask == {o \in accepted : o.data = creation.task}

\* C28 as stated: a createTask call that fails while the browser is offline
\* queues exactly one pending 'create' operation for its task, sets the
\* store's error and loading = false, and rethrows.
FailedOfflineCreateQueuedOnce ==
    creation.pc = "thrown" /\ creation.offline
        => /\ Cardinality(QueuedForTheTask) = 1
           /\ taskStore.error # NoError
           /\ taskStore.loading = FALSE

\* C29 as stated: an operation accepted by addPendingOperation stays in the
\* pending queue until it has executed successfully or has failed
\* maxRetries times.
NoQueuedOperationLost ==
    \A o \in accepted :
        o.id \in idsOf(pendingOperations) \/ o.id \in executed \/ o.id \in exhausted

\* ------------------------- the checked claims: the dates the calendar writes

\* C30 as stated: after any sequence of calendar drag-and-drop operations a
\* task that has both dates is due on or after the day it starts.
DueNeverBeforeStart ==
    task.startDate # NoDate /\ task.dueDate # NoDate
        => DayOf(task.dueDate) >= DayOf(task.startDate)

====
